---- MODULE Spec2Model ----
(***************************************************************************)
(* Treasure Hunt: the frame-stepped simulation core of game.py (two        *)
(* players) and game2.py (player versus AI).                               *)
(*                                                                         *)
(* Numbers.  The program computes with Python floats.  Here every position *)
(* and velocity is a fixed-point integer with Q units per pixel; a product *)
(* with a decimal constant (0.985, -0.7, 1.7/2) is rounded toward zero.    *)
(* Pixel quantities that are integers in the program (mouse positions,     *)
(* rectangles, grid cells) stay integers in pixels.                        *)
(***************************************************************************)
EXTENDS Integers, Sequences, FiniteSets, TLC

(***************************************************************************)
(* CONFIG (game.py 15-29, game2.py 15-31)                                  *)
(***************************************************************************)
\* fixed-point units per pixel
Q == 10 * 10

GRID_ROWS == 5
GRID_COLS == 9
CELL == 90
MARGIN == 40
WIDTH == GRID_COLS * CELL + MARGIN * 2
HEIGHT == GRID_ROWS * CELL + MARGIN * 2 + 50
ROUNDS_TO_WIN == 2
\* FRICTION = 0.985 as a fraction of 1000
FRICTION == 985
\* MIN_SPEED = 0.35 pixel per frame, in Q units
MIN_SPEED == 35
\* MAX_SHOT_POWER = 16.0 pixels per frame, in Q units
MAX_SHOT_POWER == 1600
\* STEAL_DISTANCE in pixels
STEAL_DISTANCE == 33
\* Coin.r in pixels
COIN_R == 14
\* Treasure.r in pixels
TREASURE_R == 8
\* the restitution factor 0.7, in tenths
RESTITUTION == 7

\* Python's None, for carried_by, carrying and the item slots' owners
None == 0 - 1
Sides == {0, 1}

(***************************************************************************)
(* Helpers                                                                 *)
(***************************************************************************)
Abs(a) == IF a < 0 THEN -a ELSE a

Min2(a, b) == IF a <= b THEN a ELSE b

Max2(a, b) == IF a >= b THEN a ELSE b

\* a / b rounded toward zero (b > 0)
TruncDiv(a, b) == IF a >= 0 THEN a \div b ELSE -((-a) \div b)

RECURSIVE SqrtSearch(_, _, _)
SqrtSearch(n, lo, hi) ==
    IF lo >= hi THEN lo
    ELSE LET mid == (lo + hi + 1) \div 2
         IN  IF mid * mid <= n THEN SqrtSearch(n, mid, hi)
             ELSE SqrtSearch(n, lo, mid - 1)

\* floor of the square root of n, 0 <= n < 2^31
ISqrt(n) == SqrtSearch(n, 0, 46340)

\* length(vx, vy) = math.hypot(vx, vy), rounded down; |vx|, |vy| <= 32000
length(vx, vy) == ISqrt(vx * vx + vy * vy)

\* the square root of n rounded up: the divisor of a quotient that is to
\* be rounded toward zero
ISqrtUp(n) == IF ISqrt(n) * ISqrt(n) = n THEN ISqrt(n) ELSE ISqrt(n) + 1

\* length(dx, dy) <= d, exact, for any dx, dy (d <= 32000)
LenLeq(dx, dy, d) ==
    /\ Abs(dx) <= d
    /\ Abs(dy) <= d
    /\ dx * dx + dy * dy <= d * d

\* length(dx, dy) < d, exact, for any dx, dy (d <= 32000)
LenLt(dx, dy, d) ==
    /\ Abs(dx) < d
    /\ Abs(dy) < d
    /\ dx * dx + dy * dy < d * d

\* grid_to_px(r, c), in pixels
grid_to_px(r, c) == <<MARGIN + c * CELL + CELL \div 2, MARGIN + r * CELL + CELL \div 2>>

\* pygame.Rect(left, top, w, h)
Rect(l, t, w, h) == [left |-> l, top |-> t, w |-> w, h |-> h]

\* pygame.Rect.collidepoint(x, y) for a point in Q units: the rectangle is
\* half open, left <= x < left + w and top <= y < top + h
collidepoint(rect, x, y) ==
    /\ rect.left * Q <= x
    /\ x < (rect.left + rect.w) * Q
    /\ rect.top * Q <= y
    /\ y < (rect.top + rect.h) * Q

(***************************************************************************)
(* Coin                                                                    *)
(***************************************************************************)
\* Coin.__init__
NewCoin(x, y) ==
    [x |-> x * Q, y |-> y * Q, vx |-> 0, vy |-> 0, r |-> COIN_R,
     carrying |-> None, resting |-> TRUE]

\* v *= FRICTION
MulFriction(v) == TruncDiv(v * FRICTION, 1000)

\* v *= -0.7
Bounce(v) == TruncDiv(-(v * RESTITUTION), 10)

\* the four wall tests of Coin.update, in the order of the code
WallBounce(c) ==
    LET map_bottom == GRID_ROWS * CELL + MARGIN
        r == c.r * Q
        c1 == IF c.x - r < MARGIN * Q
              THEN [c EXCEPT !.x = MARGIN * Q + r, !.vx = Bounce(c.vx)] ELSE c
        c2 == IF c1.x + r > (WIDTH - MARGIN) * Q
              THEN [c1 EXCEPT !.x = (WIDTH - MARGIN) * Q - r, !.vx = Bounce(c1.vx)] ELSE c1
        c3 == IF c2.y - r < MARGIN * Q
              THEN [c2 EXCEPT !.y = MARGIN * Q + r, !.vy = Bounce(c2.vy)] ELSE c2
        c4 == IF c3.y + r > map_bottom * Q
              THEN [c3 EXCEPT !.y = map_bottom * Q - r, !.vy = Bounce(c3.vy)] ELSE c3
    IN  c4

\* the body of "for rect in obstacles" of Coin.update for one rectangle
\* fault: an obstacle response that tries the top and bottom sides first
ObstacleBounceTopFirst(c, rect) ==
    IF ~collidepoint(rect, c.x, c.y) THEN c
    ELSE LET r == c.r * Q
             left == rect.left * Q
             right == (rect.left + rect.w) * Q
             top == rect.top * Q
             bottom == (rect.top + rect.h) * Q
             dx_left == Abs(left - (c.x + r))
             dx_right == Abs(right - (c.x - r))
             dy_top == Abs(top - (c.y + r))
             dy_bottom == Abs(bottom - (c.y - r))
             m == Min2(Min2(dx_left, dx_right), Min2(dy_top, dy_bottom))
         IN  IF m = dy_top THEN [c EXCEPT !.y = top - r, !.vy = Bounce(c.vy)]
             ELSE IF m = dy_bottom THEN [c EXCEPT !.y = bottom + r, !.vy = Bounce(c.vy)]
             ELSE IF m = dx_left THEN [c EXCEPT !.x = left - r, !.vx = Bounce(c.vx)]
             ELSE [c EXCEPT !.x = right + r, !.vx = Bounce(c.vx)]

ObstacleBounce(c, rect) ==
    IF ~collidepoint(rect, c.x, c.y) THEN c
    ELSE LET r == c.r * Q
             left == rect.left * Q
             right == (rect.left + rect.w) * Q
             top == rect.top * Q
             bottom == (rect.top + rect.h) * Q
             dx_left == Abs(left - (c.x + r))
             dx_right == Abs(right - (c.x - r))
             dy_top == Abs(top - (c.y + r))
             dy_bottom == Abs(bottom - (c.y - r))
             m == Min2(Min2(dx_left, dx_right), Min2(dy_top, dy_bottom))
         IN  IF m = dx_left THEN [c EXCEPT !.x = left - r, !.vx = Bounce(c.vx)]
             ELSE IF m = dx_right THEN [c EXCEPT !.x = right + r, !.vx = Bounce(c.vx)]
             ELSE IF m = dy_top THEN [c EXCEPT !.y = top - r, !.vy = Bounce(c.vy)]
             ELSE [c EXCEPT !.y = bottom + r, !.vy = Bounce(c.vy)]

RECURSIVE ObstacleLoop(_, _, _)
ObstacleLoop(c, obstacles, k) ==
    IF k > Len(obstacles) THEN c
    ELSE ObstacleLoop(ObstacleBounce(c, obstacles[k]), obstacles, k + 1)

\* fault: a stop branch that leaves the velocity as it is
CoinUpdateKeepsVelocity(c, obstacles) ==
    IF Abs(c.vx) < MIN_SPEED /\ Abs(c.vy) < MIN_SPEED
    THEN [c EXCEPT !.resting = TRUE]
    ELSE LET moved == [c EXCEPT !.resting = FALSE,
                                !.x = c.x + c.vx,
                                !.y = c.y + c.vy,
                                !.vx = MulFriction(c.vx),
                                !.vy = MulFriction(c.vy)]
         IN  ObstacleLoop(WallBounce(moved), obstacles, 1)

\* fault: friction applied before the displacement
CoinUpdateFrictionFirst(c, obstacles) ==
    IF Abs(c.vx) < MIN_SPEED /\ Abs(c.vy) < MIN_SPEED
    THEN [c EXCEPT !.vx = 0, !.vy = 0, !.resting = TRUE]
    ELSE LET moved == [c EXCEPT !.resting = FALSE,
                                !.x = c.x + MulFriction(c.vx),
                                !.y = c.y + MulFriction(c.vy),
                                !.vx = MulFriction(c.vx),
                                !.vy = MulFriction(c.vy)]
         IN  ObstacleLoop(WallBounce(moved), obstacles, 1)

\* Coin.update(obstacles)
CoinUpdate(c, obstacles) ==
    IF Abs(c.vx) < MIN_SPEED /\ Abs(c.vy) < MIN_SPEED
    THEN [c EXCEPT !.vx = 0, !.vy = 0, !.resting = TRUE]
    ELSE LET moved == [c EXCEPT !.resting = FALSE,
                                !.x = c.x + c.vx,
                                !.y = c.y + c.vy,
                                !.vx = MulFriction(c.vx),
                                !.vy = MulFriction(c.vy)]
         IN  ObstacleLoop(WallBounce(moved), obstacles, 1)

(***************************************************************************)
(* Bounds of the model: the inputs and the random draws are taken from     *)
(* these finite sets.                                                      *)
(***************************************************************************)
\* launches and resets accepted since construction
MaxInputs == 2

\* load_random_map: the built-in fallback layout
DefaultLayout ==
    << Rect(MARGIN + 2 * CELL + CELL \div 2 - 8, MARGIN + CELL \div 2, 16, CELL * 3),
       Rect(MARGIN + 4 * CELL + CELL \div 2 - 8, MARGIN + CELL \div 2, 16, CELL * 3),
       Rect(MARGIN + 6 * CELL + CELL \div 2 - 8, MARGIN + CELL \div 2, 16, CELL * 3),
       Rect(WIDTH \div 2 - 80, (GRID_ROWS * CELL) \div 2 + MARGIN - 10, 160, 20) >>

\* a map file of the maps folder: a wall in the upper half behind the
\* column-3 cells and one in the lower half in front of the column-5 cells
MapFileLayout == << Rect(390, 40, 20, 180), Rect(480, 310, 20, 180) >>

\* the layouts load_random_map can return
MapChoices == {DefaultLayout, MapFileLayout}

\* the joint outcomes of the two random draws of the K_r branch that the
\* model follows: layout and starting player
ResetDraws == {<<MapFileLayout, 1>>, <<DefaultLayout, 0>>}

\* the joint outcomes of the random draws of start_round that the model
\* follows: treasure cell, item kind, item cell
RoundDraws ==
    { <<<<2, 3>>, "stop", <<1, 5>>>>,
      <<<<2, 5>>, "redirect", <<2, 6>>>>,
      <<<<3, 3>>, "extra", <<2, 3>>>> }

\* the joint outcomes of spawn_random_item_one_of_three at a turn switch
\* that the model follows: item kind, item cell
SpawnDraws == {<<"stop", <<1, 3>>>>, <<"extra", <<1, 5>>>>, <<"redirect", <<3, 5>>>>}

\* the joint outcomes of random.uniform(5, 7) and random.uniform(-2, 2)
\* that the model follows, in Q units
UniformDraws == {<<500, 200>>, <<700, 0 - 200>>}

\* the draws of the K_SPACE shot that the model follows, in Q units
NudgeDraws == {<<600, 0 - 200>>}

\* mouse position of a press, relative to the current coin (pixels)
PressOffsets == {<<0, 0>>, <<30, 0>>}

\* mouse displacement between press and release (pixels): a pull to the
\* left, a pull to the right, and one too short to launch
DragChoices == {<<0 - 60, 0>>, <<60, 0>>, <<1, 0>>}

(***************************************************************************)
(* Game: construction and round start                                      *)
(***************************************************************************)
ItemNames == <<"extra", "stop", "redirect">>

other(p) == 1 - p

\* Game._cell_center_blocked(r, c)
CellCenterBlocked(obstacles, r, c) ==
    LET p == grid_to_px(r, c)
    IN  \E k \in 1..Len(obstacles) : collidepoint(obstacles[k], p[1] * Q, p[2] * Q)

\* the test of Game._try_spawn_item on one cell: an unblocked green-area
\* cell not on a treasure's cell (t.r + 16) and not on another item (< 10)
ValidItemCell(g, rc) ==
    /\ rc \in (0..4) \X (2..6)
    /\ ~CellCenterBlocked(g.obstacles, rc[1], rc[2])
    /\ \A k \in 1..Len(g.treasures) :
          LET t == g.treasures[k]
              tp == grid_to_px(t.row, t.col)
              p == grid_to_px(rc[1], rc[2])
          IN  ~LenLeq(p[1] - tp[1], p[2] - tp[2], t.r + 16)
    /\ \A n \in {"extra", "stop", "redirect"} :
          g.items[n] # <<>> =>
              LET ip == grid_to_px(g.items[n][1], g.items[n][2])
                  p == grid_to_px(rc[1], rc[2])
              IN  ~LenLt(p[1] - ip[1], p[2] - ip[2], 10)

\* Game.spawn_item_Extraturn / _StopCoin / _ReDirect when the shuffled
\* green_area yields the valid cell rc first
SpawnItem(g, name, rc) ==
    IF g.items[name] # <<>> THEN g ELSE [g EXCEPT !.items[name] = rc]

\* Game.spawn_random_item_one_of_three: the set of possible results, cut
\* down to the outcomes of "draws" when one of them is possible
SpawnRandomItemOneOfThree(g, draws) ==
    LET F == { d \in draws : g.items[d[1]] # <<>> \/ ValidItemCell(g, d[2]) }
        valid == { rc \in (0..4) \X (2..6) : ValidItemCell(g, rc) }
    IN  IF F # {} THEN { SpawnItem(g, d[1], d[2]) : d \in F }
        ELSE IF valid = {} THEN { g }
        ELSE { SpawnItem(g, n, rc) : n \in {"extra", "stop", "redirect"}, rc \in valid }

\* the treasure object created by start_round
\* (a Treasure object is identified by its rank of creation)
NewTreasure(rc, id) ==
    [id |-> id, row |-> rc[1], col |-> rc[2], r |-> TREASURE_R, carried_by |-> None]

\* fault: a round start that leaves the velocities of the coins as they are
ResetCoinKeepsVelocity(c, x, y) ==
    [c EXCEPT !.x = x * Q, !.y = y * Q, !.resting = TRUE, !.carrying = None]

\* the coins after the position and flag resets of start_round
ResetCoin(c, x, y) ==
    [c EXCEPT !.x = x * Q, !.y = y * Q, !.vx = 0, !.vy = 0,
              !.resting = TRUE, !.carrying = None]

\* fault: start_round that leaves a pending think timer of the AI armed
StartRoundKeepsTimer(g, starting_player) ==
    LET map_mid_y == (GRID_ROWS * CELL + MARGIN * 2) \div 2
        g1 == [g EXCEPT !.turn = starting_player,
                        !.awaiting_switch = FALSE,
                        !.extra_turn = FALSE,
                        !.total_turns = 0,
                        !.coins = [i \in Sides |->
                                     IF i = 0 THEN ResetCoin(g.coins[0], MARGIN + 20, map_mid_y)
                                     ELSE ResetCoin(g.coins[1], WIDTH - MARGIN - 20, map_mid_y)],
                        !.trace.round_started = TRUE]
        candidate_cells == { rc \in (1..3) \X (3..5) :
                               ~CellCenterBlocked(g.obstacles, rc[1], rc[2]) }
        cleared == [n \in {"extra", "stop", "redirect"} |-> <<>>]
        With(rc) == [g1 EXCEPT !.treasures = <<NewTreasure(rc, g.treasures_made + 1)>>,
                               !.treasures_made = @ + 1,
                               !.items = cleared]
        F == { d \in RoundDraws : d[1] \in candidate_cells /\ ValidItemCell(With(d[1]), d[3]) }
    IN  IF candidate_cells = {}
        THEN SpawnRandomItemOneOfThree([g1 EXCEPT !.treasures = <<>>, !.items = cleared],
                                       SpawnDraws)
        ELSE IF F # {}
        THEN UNION { SpawnRandomItemOneOfThree(With(d[1]), {<<d[2], d[3]>>}) : d \in F }
        ELSE UNION { SpawnRandomItemOneOfThree(With(rc), SpawnDraws) : rc \in candidate_cells }

\* fault: start_round that appends the new treasure to the old list
StartRoundKeepsTreasures(g, starting_player) ==
    LET map_mid_y == (GRID_ROWS * CELL + MARGIN * 2) \div 2
        g1 == [g EXCEPT !.turn = starting_player,
                        !.awaiting_switch = FALSE,
                        !.extra_turn = FALSE,
                        !.ai_thinking = IF g.variant = "game2" THEN FALSE ELSE @,
                        !.total_turns = 0,
                        !.coins = [i \in Sides |->
                                     IF i = 0 THEN ResetCoin(g.coins[0], MARGIN + 20, map_mid_y)
                                     ELSE ResetCoin(g.coins[1], WIDTH - MARGIN - 20, map_mid_y)],
                        !.trace.round_started = TRUE]
        candidate_cells == { rc \in (1..3) \X (3..5) :
                               ~CellCenterBlocked(g.obstacles, rc[1], rc[2]) }
        cleared == [n \in {"extra", "stop", "redirect"} |-> <<>>]
        With(rc) == [g1 EXCEPT !.treasures = Append(@, NewTreasure(rc, g.treasures_made + 1)),
                               !.treasures_made = @ + 1,
                               !.items = cleared]
        F == { d \in RoundDraws : d[1] \in candidate_cells /\ ValidItemCell(With(d[1]), d[3]) }
    IN  IF candidate_cells = {}
        THEN SpawnRandomItemOneOfThree([g1 EXCEPT !.treasures = <<>>, !.items = cleared],
                                       SpawnDraws)
        ELSE IF F # {}
        THEN UNION { SpawnRandomItemOneOfThree(With(d[1]), {<<d[2], d[3]>>}) : d \in F }
        ELSE UNION { SpawnRandomItemOneOfThree(With(rc), SpawnDraws) : rc \in candidate_cells }

\* Game.start_round(starting_player): the set of possible results
StartRound(g, starting_player) ==
    LET map_mid_y == (GRID_ROWS * CELL + MARGIN * 2) \div 2
        g1 == [g EXCEPT !.turn = starting_player,
                        !.awaiting_switch = FALSE,
                        !.extra_turn = FALSE,
                        !.ai_thinking = IF g.variant = "game2" THEN FALSE ELSE @,
                        !.total_turns = 0,
                        !.coins = [i \in Sides |->
                                     IF i = 0 THEN ResetCoin(g.coins[0], MARGIN + 20, map_mid_y)
                                     ELSE ResetCoin(g.coins[1], WIDTH - MARGIN - 20, map_mid_y)],
                        !.trace.round_started = TRUE]
        candidate_cells == { rc \in (1..3) \X (3..5) :
                               ~CellCenterBlocked(g.obstacles, rc[1], rc[2]) }
        cleared == [n \in {"extra", "stop", "redirect"} |-> <<>>]
        With(rc) == [g1 EXCEPT !.treasures = <<NewTreasure(rc, g.treasures_made + 1)>>,
                               !.treasures_made = @ + 1,
                               !.items = cleared]
        F == { d \in RoundDraws : d[1] \in candidate_cells /\ ValidItemCell(With(d[1]), d[3]) }
    IN  IF candidate_cells = {}
        THEN SpawnRandomItemOneOfThree([g1 EXCEPT !.treasures = <<>>, !.items = cleared],
                                       SpawnDraws)
        ELSE IF F # {}
        THEN UNION { SpawnRandomItemOneOfThree(With(d[1]), {<<d[2], d[3]>>}) : d \in F }
        ELSE UNION { SpawnRandomItemOneOfThree(With(rc), SpawnDraws) : rc \in candidate_cells }

\* self.ai_index, set once in Game.__init__ of game2.py
ai_index == 1

\* self.bases, set once in Game.__init__
bases ==
    LET base_h == 3 * CELL
        base_y == MARGIN + (GRID_ROWS * CELL - base_h) \div 2
    IN  [i \in Sides |-> IF i = 0 THEN Rect(MARGIN, base_y, CELL, base_h)
                         ELSE Rect(WIDTH - MARGIN - CELL, base_y, CELL, base_h)]

\* what the per-frame log keeps of the game at a point of the frame
Snap(g) ==
    [coins |-> g.coins, treasures |-> g.treasures, extra_turn |-> g.extra_turn,
     awaiting_switch |-> g.awaiting_switch, turn |-> g.turn, dragging |-> g.dragging,
     items |-> g.items, match_wins |-> g.match_wins, match_over |-> g.match_over,
     total_turns |-> g.total_turns]

\* the points of a frame the log keeps: its start, after the global keys,
\* after handle_shot_input, after update_ai, and after steps 1 to 5 of
\* update_logic (move, item pickup, collision, treasure pickup, steal)
StageNames == {"start", "keys", "input", "ai", "moved", "items", "coll", "pick", "steal"}

\* the per-frame log of run() at the start of a frame: which steps acted
\* (flags) and the game after each step (stages)
FreshTrace(g) ==
    [reset |-> FALSE, launches |-> 0, ran |-> FALSE, ai_started |-> FALSE,
     last_positions |-> [i \in Sides |-> <<g.coins[i].x, g.coins[i].y>>],
     touched |-> [n \in {"extra", "stop", "redirect"} |-> {}],
     consumed |-> [n \in {"extra", "stop", "redirect"} |-> None],
     stole |-> None, scored |-> None, switched |-> FALSE,
     extra_at_switch |-> FALSE, round_started |-> FALSE,
     stage |-> [n \in StageNames |-> Snap(g)]]

\* the game with the stage "name" of the log taken now
Mark(g, name) == [g EXCEPT !.trace.stage[name] = Snap(g)]

\* Game.__init__ up to, not including, its call of start_round
Constructed(variant, layout) ==
    LET mid == (GRID_ROWS * CELL + MARGIN * 2) \div 2
    IN  [variant |-> variant,
         coins |-> [i \in Sides |-> IF i = 0 THEN NewCoin(MARGIN + 20, mid)
                                    ELSE NewCoin(WIDTH - MARGIN - 20, mid)],
         match_wins |-> [i \in Sides |-> 0],
         turn |-> 0,
         extra_turn |-> FALSE,
         awaiting_switch |-> FALSE,
         dragging |-> FALSE,
         drag_start |-> <<0, 0>>,
         treasures |-> <<>>,
         treasures_made |-> 0,
         match_over |-> FALSE,
         total_turns |-> 0,
         ai_thinking |-> FALSE,
         ai_think_until |-> 0,
         clock |-> 0,
         obstacles |-> layout,
         items |-> [n \in {"extra", "stop", "redirect"} |-> <<>>],
         trace |-> <<>>]

\* Game.__init__: the set of possible games after construction
NewGame(v) ==
    { [h EXCEPT !.trace = FreshTrace(h)] :
        h \in UNION { StartRound([Constructed(v, layout) EXCEPT
                                      !.trace = FreshTrace(Constructed(v, layout))], 0) :
                        layout \in MapChoices } }

(***************************************************************************)
(* Input                                                                   *)
(***************************************************************************)
\* fault: a launch that does not raise awaiting_switch
LaunchNoAwait(g, vx, vy) ==
    [g EXCEPT !.coins[g.turn].vx = vx,
              !.coins[g.turn].vy = vy,
              !.coins[g.turn].resting = FALSE,
              !.trace.launches = @ + 1]

\* the launch assignments shared by the release and the nudge branch
Launch(g, vx, vy) ==
    [g EXCEPT !.coins[g.turn].vx = vx,
              !.coins[g.turn].vy = vy,
              !.coins[g.turn].resting = FALSE,
              !.awaiting_switch = TRUE,
              !.trace.launches = @ + 1]

\* the MOUSEBUTTONDOWN branch of handle_shot_input
MouseDown(g, mouse) ==
    LET coin == g.coins[g.turn]
    IN  IF LenLeq(mouse[1] * Q - coin.x, mouse[2] * Q - coin.y, (coin.r + 10) * Q)
        THEN [g EXCEPT !.dragging = TRUE, !.drag_start = mouse]
        ELSE g

\* fault: the MOUSEBUTTONUP branch without the scale to MAX_SHOT_POWER
MouseUpUnclamped(g, mouse) ==
    LET dx == mouse[1] - g.drag_start[1]
        dy == mouse[2] - g.drag_start[2]
        vx == -(dx * (Q \div 10))
        vy == -(dy * (Q \div 10))
        g1 == [g EXCEPT !.dragging = FALSE]
    IN  IF vx * vx + vy * vy > (Q \div 10) * (Q \div 10)
        THEN Launch(g1, vx, vy)
        ELSE g1

\* the MOUSEBUTTONUP branch of handle_shot_input (taken when self.dragging)
MouseUp(g, mouse) ==
    LET dx == mouse[1] - g.drag_start[1]
        dy == mouse[2] - g.drag_start[2]
        \* vx, vy = -dx / 10.0, -dy / 10.0, in Q units
        vx == -(dx * (Q \div 10))
        vy == -(dy * (Q \div 10))
        g1 == [g EXCEPT !.dragging = FALSE]
    IN  \* speed > 0.1, exactly: vx^2 + vy^2 > (0.1 Q)^2
        IF vx * vx + vy * vy > (Q \div 10) * (Q \div 10)
        THEN IF vx * vx + vy * vy <= MAX_SHOT_POWER * MAX_SHOT_POWER
             THEN Launch(g1, vx, vy)
             ELSE Launch(g1, TruncDiv(vx * MAX_SHOT_POWER, ISqrtUp(vx * vx + vy * vy)),
                             TruncDiv(vy * MAX_SHOT_POWER, ISqrtUp(vx * vx + vy * vy)))
        ELSE g1

\* one iteration of "for e in events" of handle_shot_input; coin is
\* coins[turn], rnd the pair of random.uniform draws of the nudge
ShotEvent(g, e, mouse, rnd) ==
    IF e = "DOWN" THEN MouseDown(g, mouse)
    ELSE IF e = "UP" /\ g.dragging THEN MouseUp(g, mouse)
    ELSE IF e = "SPACE" /\ g.coins[g.turn].resting
         THEN Launch(g, IF g.variant = "game2" THEN rnd[1]
                        ELSE rnd[1] * (IF g.turn = 0 THEN 1 ELSE -1),
                     rnd[2])
    ELSE g

RECURSIVE ShotEvents(_, _, _, _, _)
ShotEvents(g, events, k, mouse, rnd) ==
    IF k > Len(events) THEN g
    ELSE ShotEvents(ShotEvent(g, events[k], mouse, rnd), events, k + 1, mouse, rnd)

\* fault: handle_shot_input of game2 without its "if self.turn != 0: return"
HandleShotInputAnyTurn(g, events, mouse, rnd) ==
    IF g.awaiting_switch \/ g.match_over THEN g
    ELSE IF ~g.coins[g.turn].resting THEN g
    ELSE ShotEvents(g, events, 1, mouse, rnd)

\* Game.handle_shot_input(events)
HandleShotInput(g, events, mouse, rnd) ==
    IF g.awaiting_switch \/ g.match_over THEN g
    ELSE IF g.variant = "game2" /\ g.turn # 0 THEN g
    ELSE IF ~g.coins[g.turn].resting THEN g
    ELSE ShotEvents(g, events, 1, mouse, rnd)

(***************************************************************************)
(* Collision                                                               *)
(***************************************************************************)
\* fault: the impulse added to both coins instead of taken from a
ResolveCoinCollisionSameSign(a, b) ==
    LET dx == b.x - a.x
        dy == b.y - a.y
        min_dist == (a.r + b.r) * Q
    IN  IF (dx = 0 /\ dy = 0) \/ ~LenLt(dx, dy, min_dist) THEN <<a, b>>
        ELSE
        LET dist == length(dx, dy)
            overlap == min_dist - dist
            px == TruncDiv(dx * overlap, 2 * dist)
            py == TruncDiv(dy * overlap, 2 * dist)
            a1 == [a EXCEPT !.x = a.x - px, !.y = a.y - py]
            b1 == [b EXCEPT !.x = b.x + px, !.y = b.y + py]
            dot == (b.vx - a.vx) * dx + (b.vy - a.vy) * dy
        IN  IF dot > 0 THEN <<a1, b1>>
            ELSE
            LET j == TruncDiv(-((10 + RESTITUTION) * TruncDiv(dot, dist)), 20)
                impulse_x == TruncDiv(j * dx, dist)
                impulse_y == TruncDiv(j * dy, dist)
            IN  << [a1 EXCEPT !.vx = a.vx + impulse_x, !.vy = a.vy + impulse_y],
                   [b1 EXCEPT !.vx = b.vx + impulse_x, !.vy = b.vy + impulse_y] >>

\* fault: the impulse applied to a separating pair too
ResolveCoinCollisionAlways(a, b) ==
    LET dx == b.x - a.x
        dy == b.y - a.y
        min_dist == (a.r + b.r) * Q
    IN  IF (dx = 0 /\ dy = 0) \/ ~LenLt(dx, dy, min_dist) THEN <<a, b>>
        ELSE
        LET dist == length(dx, dy)
            overlap == min_dist - dist
            px == TruncDiv(dx * overlap, 2 * dist)
            py == TruncDiv(dy * overlap, 2 * dist)
            a1 == [a EXCEPT !.x = a.x - px, !.y = a.y - py]
            b1 == [b EXCEPT !.x = b.x + px, !.y = b.y + py]
            dot == (b.vx - a.vx) * dx + (b.vy - a.vy) * dy
            j == TruncDiv(-((10 + RESTITUTION) * TruncDiv(dot, dist)), 20)
            impulse_x == TruncDiv(j * dx, dist)
            impulse_y == TruncDiv(j * dy, dist)
        IN  << [a1 EXCEPT !.vx = a.vx - impulse_x, !.vy = a.vy - impulse_y],
               [b1 EXCEPT !.vx = b.vx + impulse_x, !.vy = b.vy + impulse_y] >>

\* Game.resolve_coin_collision(a, b): the pair <<a, b>> afterwards
ResolveCoinCollision(a, b) ==
    LET dx == b.x - a.x
        dy == b.y - a.y
        min_dist == (a.r + b.r) * Q
    IN  IF (dx = 0 /\ dy = 0) \/ ~LenLt(dx, dy, min_dist) THEN <<a, b>>
        ELSE
        LET dist == length(dx, dy)
            overlap == min_dist - dist
            \* nx * overlap * 0.5 and ny * overlap * 0.5
            px == TruncDiv(dx * overlap, 2 * dist)
            py == TruncDiv(dy * overlap, 2 * dist)
            a1 == [a EXCEPT !.x = a.x - px, !.y = a.y - py]
            b1 == [b EXCEPT !.x = b.x + px, !.y = b.y + py]
            rvx == b.vx - a.vx
            rvy == b.vy - a.vy
            \* vel_along_normal = rvx * nx + rvy * ny, times dist
            dot == rvx * dx + rvy * dy
        IN  IF dot > 0 THEN <<a1, b1>>
            ELSE
            LET vel_along_normal == TruncDiv(dot, dist)
                \* j = -(1 + restitution) * vel_along_normal / 2
                j == TruncDiv(-((10 + RESTITUTION) * vel_along_normal), 20)
                impulse_x == TruncDiv(j * dx, dist)
                impulse_y == TruncDiv(j * dy, dist)
            IN  << [a1 EXCEPT !.vx = a.vx - impulse_x, !.vy = a.vy - impulse_y],
                   [b1 EXCEPT !.vx = b.vx + impulse_x, !.vy = b.vy + impulse_y] >>

(***************************************************************************)
(* Frame update                                                            *)
(***************************************************************************)
\* the position of an item or a free treasure, in Q units
CellPos(rc) == <<grid_to_px(rc[1], rc[2])[1] * Q, grid_to_px(rc[1], rc[2])[2] * Q>>

\* fault: a pickup test that looks at the current distance only
TouchedInside(g, rc, last_positions) ==
    { p \in Sides :
        LET coin == g.coins[p]
            ip == CellPos(rc)
        IN  LenLeq(coin.x - ip[1], coin.y - ip[2], (coin.r + 12) * Q) }

\* the coins that entered the pickup radius of the item at cell rc:
\* d_before > coin.r + 12 and d_now <= coin.r + 12
Touched(g, rc, last_positions) ==
    { p \in Sides :
        LET coin == g.coins[p]
            ip == CellPos(rc)
        IN  /\ ~LenLeq(last_positions[p][1] - ip[1], last_positions[p][2] - ip[2],
                       (coin.r + 12) * Q)
            /\ LenLeq(coin.x - ip[1], coin.y - ip[2], (coin.r + 12) * Q) }

\* fault: touched[-1]
Last(S) == CHOOSE p \in S : \A q \in S : q <= p

\* touched[0]
First(S) == CHOOSE p \in S : \A q \in S : p <= q

\* fault: a redirect that sends every coin to the right
ItemEffectUnbiased(g, name, player) ==
    IF name = "extra"
    THEN IF g.variant = "game2" \/ player = g.turn
         THEN { [g EXCEPT !.extra_turn = TRUE] }
         ELSE { g }
    ELSE IF name = "stop"
    THEN { [g EXCEPT !.coins[player].vx = 0,
                     !.coins[player].vy = 0,
                     !.coins[player].resting = TRUE] }
    ELSE { [g EXCEPT !.coins[player].vx = u[1],
                     !.coins[player].vy = u[2],
                     !.coins[player].resting = FALSE,
                     !.awaiting_switch = TRUE] :
             u \in UniformDraws }

\* the "apply effect" branches of check_item_pickup for item "name"
\* consumed by coin "player": the set of possible results
ItemEffect(g, name, player) ==
    IF name = "extra"
    THEN IF g.variant = "game2" \/ player = g.turn
         THEN { [g EXCEPT !.extra_turn = TRUE] }
         ELSE { g }
    ELSE IF name = "stop"
    THEN { [g EXCEPT !.coins[player].vx = 0,
                     !.coins[player].vy = 0,
                     !.coins[player].resting = TRUE] }
    ELSE { [g EXCEPT !.coins[player].vx = u[1] * (IF player = 0 THEN 1 ELSE -1),
                     !.coins[player].vy = u[2],
                     !.coins[player].resting = FALSE,
                     !.awaiting_switch = TRUE] :
             u \in UniformDraws }

\* one iteration of "for name, attr in items" of check_item_pickup
ItemStep(g, name, last_positions) ==
    IF g.items[name] = <<>> THEN { g }
    ELSE LET touched == Touched(g, g.items[name], last_positions)
         IN  IF touched = {} THEN { g }
             ELSE ItemEffect([g EXCEPT !.items[name] = <<>>,
                                       !.trace.touched[name] = touched,
                                       !.trace.consumed[name] = First(touched)],
                             name, First(touched))

\* Game.check_item_pickup(last_positions): the set of possible results
CheckItemPickup(g, last_positions) ==
    LET s1 == ItemStep(g, ItemNames[1], last_positions)
        s2 == UNION { ItemStep(h, ItemNames[2], last_positions) : h \in s1 }
    IN  UNION { ItemStep(h, ItemNames[3], last_positions) : h \in s2 }

\* the index of the first free treasure within c.r + 12 of coin c, or 0
RECURSIVE FirstFreeNear(_, _, _)
FirstFreeNear(treasures, c, k) ==
    IF k > Len(treasures) THEN 0
    ELSE LET t == treasures[k]
             tp == CellPos(<<t.row, t.col>>)
         IN  IF t.carried_by = None /\ LenLeq(c.x - tp[1], c.y - tp[2], (c.r + 12) * Q)
             THEN k
             ELSE FirstFreeNear(treasures, c, k + 1)

\* fault: a pickup that grants the extra turn whoever picks up
TreasurePickupOfAnySide(g, i) ==
    LET c == g.coins[i]
        k == FirstFreeNear(g.treasures, c, 1)
    IN  IF c.carrying # None \/ k = 0 THEN g
        ELSE [g EXCEPT !.coins[i].carrying = g.treasures[k].id,
                       !.treasures[k].carried_by = i,
                       !.extra_turn = TRUE]

\* the body of "for i, c in enumerate(self.coins)" of step 4, treasure pickup
TreasurePickupOf(g, i) ==
    LET c == g.coins[i]
        k == FirstFreeNear(g.treasures, c, 1)
    IN  IF c.carrying # None \/ k = 0 THEN g
        ELSE [g EXCEPT !.coins[i].carrying = g.treasures[k].id,
                       !.treasures[k].carried_by = i,
                       !.extra_turn = IF i = g.turn THEN TRUE ELSE @]

\* step 4 of update_logic
TreasurePickup(g) == TreasurePickupOf(TreasurePickupOf(g, 0), 1)

\* fault: Steal that leaves the defender's reference to the treasure in place
StealKeepsDefender(g) ==
    LET attacker == g.coins[g.turn]
        defender == g.coins[other(g.turn)]
    IN  IF /\ LenLeq(attacker.x - defender.x, attacker.y - defender.y, STEAL_DISTANCE * Q)
           /\ attacker.carrying = None
           /\ defender.carrying # None
        THEN [g EXCEPT !.coins[g.turn].carrying = defender.carrying,
                       !.treasures = [k \in 1..Len(g.treasures) |->
                                        IF g.treasures[k].id = defender.carrying
                                        THEN [g.treasures[k] EXCEPT !.carried_by = g.turn]
                                        ELSE g.treasures[k]],
                       !.extra_turn = TRUE,
                       !.trace.stole = g.turn]
        ELSE g

\* fault: Steal that does not grant the extra turn
StealNoExtraTurn(g) ==
    LET attacker == g.coins[g.turn]
        defender == g.coins[other(g.turn)]
    IN  IF /\ LenLeq(attacker.x - defender.x, attacker.y - defender.y, STEAL_DISTANCE * Q)
           /\ attacker.carrying = None
           /\ defender.carrying # None
        THEN [g EXCEPT !.coins[g.turn].carrying = defender.carrying,
                       !.coins[other(g.turn)].carrying = None,
                       !.treasures = [k \in 1..Len(g.treasures) |->
                                        IF g.treasures[k].id = defender.carrying
                                        THEN [g.treasures[k] EXCEPT !.carried_by = g.turn]
                                        ELSE g.treasures[k]],
                       !.trace.stole = g.turn]
        ELSE g

\* fault: Steal evaluated for both pairs, the empty-handed coin taking the
\* treasure whoever's turn it is
StealEitherWay(g) ==
    LET near == LenLeq(g.coins[0].x - g.coins[1].x, g.coins[0].y - g.coins[1].y,
                       STEAL_DISTANCE * Q)
        A == { i \in Sides : g.coins[i].carrying = None /\ g.coins[other(i)].carrying # None }
    IN  IF near /\ A # {}
        THEN LET a == CHOOSE i \in A : TRUE
             IN  [g EXCEPT !.coins[a].carrying = g.coins[other(a)].carrying,
                           !.coins[other(a)].carrying = None,
                           !.treasures = [k \in 1..Len(g.treasures) |->
                                            IF g.treasures[k].id = g.coins[other(a)].carrying
                                            THEN [g.treasures[k] EXCEPT !.carried_by = a]
                                            ELSE g.treasures[k]],
                           !.extra_turn = TRUE,
                           !.trace.stole = a]
        ELSE g

\* step 5 of update_logic
Steal(g) ==
    LET attacker == g.coins[g.turn]
        defender == g.coins[other(g.turn)]
    IN  IF /\ LenLeq(attacker.x - defender.x, attacker.y - defender.y, STEAL_DISTANCE * Q)
           /\ attacker.carrying = None
           /\ defender.carrying # None
        THEN [g EXCEPT !.coins[g.turn].carrying = defender.carrying,
                       !.coins[other(g.turn)].carrying = None,
                       !.treasures = [k \in 1..Len(g.treasures) |->
                                        IF g.treasures[k].id = defender.carrying
                                        THEN [g.treasures[k] EXCEPT !.carried_by = g.turn]
                                        ELSE g.treasures[k]],
                       !.extra_turn = TRUE,
                       !.trace.stole = g.turn]
        ELSE g

\* self.treasures.remove(c.carrying), guarded by "c.carrying in self.treasures"
RECURSIVE RemoveTreasure(_, _)
RemoveTreasure(treasures, id) ==
    IF treasures = <<>> THEN <<>>
    ELSE IF Head(treasures).id = id THEN Tail(treasures)
    ELSE <<Head(treasures)>> \o RemoveTreasure(Tail(treasures), id)

\* the first coin the scoring loop of step 6 finds, or None
Scorer(g) ==
    LET S == { i \in Sides : /\ g.coins[i].carrying # None
                             /\ collidepoint(bases[i], g.coins[i].x, g.coins[i].y) }
    IN  IF S = {} THEN None ELSE First(S)

\* fault: step 6 without "self.treasures.remove" and "c.carrying = None"
ScoreKeepsCarrying(g, i) ==
    LET g1 == [g EXCEPT !.match_wins[i] = @ + 1,
                        !.trace.scored = i]
    IN  IF g1.match_wins[i] >= ROUNDS_TO_WIN
        THEN { [g1 EXCEPT !.match_over = TRUE, !.awaiting_switch = FALSE] }
        ELSE StartRound(g1, other(i))

\* fault: a step 6 that gives the opening turn to the scoring side
ScoreScorerOpens(g, i) ==
    LET g1 == [g EXCEPT !.match_wins[i] = @ + 1,
                        !.treasures = RemoveTreasure(@, g.coins[i].carrying),
                        !.coins[i].carrying = None,
                        !.trace.scored = i]
    IN  IF g1.match_wins[i] >= ROUNDS_TO_WIN
        THEN { [g1 EXCEPT !.match_over = TRUE, !.awaiting_switch = FALSE] }
        ELSE StartRound(g1, i)

\* fault: a step 6 that starts a new round whatever the win counter
ScoreNeverEnds(g, i) ==
    StartRound([g EXCEPT !.match_wins[i] = @ + 1,
                         !.treasures = RemoveTreasure(@, g.coins[i].carrying),
                         !.coins[i].carrying = None,
                         !.trace.scored = i], other(i))

\* the body of step 6 for the scoring coin i: the set of possible results
Score(g, i) ==
    LET g1 == [g EXCEPT !.match_wins[i] = @ + 1,
                        !.treasures = RemoveTreasure(@, g.coins[i].carrying),
                        !.coins[i].carrying = None,
                        !.trace.scored = i]
    IN  IF g1.match_wins[i] >= ROUNDS_TO_WIN
        THEN { [g1 EXCEPT !.match_over = TRUE, !.awaiting_switch = FALSE] }
        ELSE StartRound(g1, other(i))

\* Game.any_moving()
any_moving(g) == \E i \in Sides : Abs(g.coins[i].vx) > 0 \/ Abs(g.coins[i].vy) > 0

\* fault: a resolution that hands the turn over whatever the extra-turn flag
ResolveAlwaysSwitches(g) ==
    LET g1 == [g EXCEPT !.extra_turn = FALSE,
                        !.turn = other(@),
                        !.awaiting_switch = FALSE,
                        !.total_turns = @ + 1,
                        !.ai_thinking = IF g.variant = "game2" /\ other(g.turn) # ai_index
                                        THEN FALSE ELSE @,
                        !.trace.switched = TRUE,
                        !.trace.extra_at_switch = g.extra_turn]
    IN  IF g1.total_turns >= 6 /\ g1.total_turns % 2 = 0
        THEN SpawnRandomItemOneOfThree(g1, SpawnDraws)
        ELSE { g1 }

\* fault: a resolution that grants the extra turn and leaves the flag set
ResolveKeepsExtra(g) ==
    IF g.variant = "game"
    THEN LET g1 == [g EXCEPT !.turn = IF g.extra_turn THEN @ ELSE other(@),
                             !.awaiting_switch = FALSE,
                             !.total_turns = @ + 1,
                             !.trace.switched = TRUE,
                             !.trace.extra_at_switch = g.extra_turn]
         IN  IF g1.total_turns >= 6 /\ g1.total_turns % 2 = 0
             THEN SpawnRandomItemOneOfThree(g1, SpawnDraws)
             ELSE { g1 }
    ELSE LET g1 == IF g.extra_turn
                   THEN g
                   ELSE [g EXCEPT !.turn = other(@), !.total_turns = @ + 1]
             g2 == IF ~g.extra_turn /\ g1.total_turns >= 6 /\ g1.total_turns % 2 = 0
                   THEN SpawnRandomItemOneOfThree(g1, SpawnDraws)
                   ELSE { g1 }
         IN  { [h EXCEPT !.awaiting_switch = FALSE,
                         !.ai_thinking = IF h.turn # ai_index THEN FALSE ELSE @,
                         !.trace.switched = TRUE,
                         !.trace.extra_at_switch = g.extra_turn] : h \in g2 }

\* the body of the "if" of step 7 of update_logic: the set of possible results
Resolve(g) ==
    IF g.variant = "game"
    THEN LET g1 == [g EXCEPT !.extra_turn = FALSE,
                             !.turn = IF g.extra_turn THEN @ ELSE other(@),
                             !.awaiting_switch = FALSE,
                             !.total_turns = @ + 1,
                             !.trace.switched = TRUE,
                             !.trace.extra_at_switch = g.extra_turn]
         IN  IF g1.total_turns >= 6 /\ g1.total_turns % 2 = 0
             THEN SpawnRandomItemOneOfThree(g1, SpawnDraws)
             ELSE { g1 }
    ELSE LET g1 == IF g.extra_turn
                   THEN [g EXCEPT !.extra_turn = FALSE]
                   ELSE [g EXCEPT !.turn = other(@), !.total_turns = @ + 1]
             g2 == IF ~g.extra_turn /\ g1.total_turns >= 6 /\ g1.total_turns % 2 = 0
                   THEN SpawnRandomItemOneOfThree(g1, SpawnDraws)
                   ELSE { g1 }
         IN  { [h EXCEPT !.awaiting_switch = FALSE,
                         !.ai_thinking = IF h.turn # ai_index THEN FALSE ELSE @,
                         !.trace.switched = TRUE,
                         !.trace.extra_at_switch = g.extra_turn] : h \in g2 }

\* fault: step 7 of update_logic without the any_moving test
TurnSwitchWhileMoving(g) ==
    IF g.awaiting_switch /\ ~g.dragging THEN Resolve(g) ELSE { g }

\* step 7 of update_logic: the set of possible results
TurnSwitch(g) ==
    IF ~any_moving(g) /\ g.awaiting_switch /\ ~g.dragging THEN Resolve(g) ELSE { g }

(***************************************************************************)
(* AI (game2.py).  The aiming geometry is evaluated on whole pixels, as    *)
(* pygame.Rect.clipline does with its arguments; lengths are kept in       *)
(* tenths of a pixel.                                                      *)
(***************************************************************************)
\* a Q-unit coordinate as a whole pixel
Px(v) == TruncDiv(v, Q)

\* math.hypot(dx, dy) of pixel differences, in tenths of a pixel
Hypot10(dx, dy) == ISqrt(100 * (dx * dx + dy * dy))

\* the region code of Cohen-Sutherland clipping: <<left, right, top, bottom>>
OutCode(rect, x, y) ==
    <<x < rect.left, x >= rect.left + rect.w, y < rect.top, y >= rect.top + rect.h>>

NoCode == <<FALSE, FALSE, FALSE, FALSE>>

\* C integer division a / b (b # 0), rounded toward zero
CDiv(a, b) == IF b > 0 THEN TruncDiv(a, b) ELSE TruncDiv(-a, -b)

\* one clipping step: the end point <<x1, y1>> moved onto the rectangle's
\* border along the line to <<x2, y2>>
ClipPoint(rect, c, x1, y1, x2, y2) ==
    LET rectx1 == rect.left
        recty1 == rect.top
        rectx2 == rect.left + rect.w - 1
        recty2 == rect.top + rect.h - 1
    IN  IF c[3] THEN <<x1 + CDiv((x2 - x1) * (recty1 - y1), y2 - y1), recty1>>
        ELSE IF c[4] THEN <<x1 + CDiv((x2 - x1) * (recty2 - y1), y2 - y1), recty2>>
        ELSE IF c[1] THEN <<rectx1, y1 + CDiv((y2 - y1) * (rectx1 - x1), x2 - x1)>>
        ELSE <<rectx2, y1 + CDiv((y2 - y1) * (rectx2 - x1), x2 - x1)>>

RECURSIVE ClipLoop(_, _, _, _, _, _)
ClipLoop(rect, x1, y1, x2, y2, fuel) ==
    LET o1 == OutCode(rect, x1, y1)
        o2 == OutCode(rect, x2, y2)
    IN  IF o1 = NoCode /\ o2 = NoCode THEN <<<<x1, y1>>, <<x2, y2>>>>
        ELSE IF (\E k \in 1..4 : o1[k] /\ o2[k]) \/ fuel = 0 THEN <<>>
        ELSE IF o1 # NoCode
        THEN LET q == ClipPoint(rect, o1, x1, y1, x2, y2)
             IN  ClipLoop(rect, q[1], q[2], x2, y2, fuel - 1)
        ELSE LET q == ClipPoint(rect, o2, x2, y2, x1, y1)
             IN  ClipLoop(rect, x1, y1, q[1], q[2], fuel - 1)

Clamp(v, lo, hi) == IF v < lo THEN lo ELSE IF v > hi THEN hi ELSE v

\* pygame.Rect.clipline((x1, y1), (x2, y2)): the clipped segment, or <<>>
clipline(rect, x1, y1, x2, y2) ==
    LET rectx1 == rect.left
        recty1 == rect.top
        rectx2 == rect.left + rect.w - 1
        recty2 == rect.top + rect.h - 1
        In(x, y) == x >= rectx1 /\ x <= rectx2 /\ y >= recty1 /\ y <= recty2
    IN  IF rect.w <= 0 \/ rect.h <= 0 THEN <<>>
        ELSE IF In(x1, y1) /\ In(x2, y2) THEN <<<<x1, y1>>, <<x2, y2>>>>
        ELSE IF \/ (x1 < rectx1 /\ x2 < rectx1) \/ (x1 > rectx2 /\ x2 > rectx2)
                \/ (y1 < recty1 /\ y2 < recty1) \/ (y1 > recty2 /\ y2 > recty2)
        THEN <<>>
        ELSE IF y1 = y2
        THEN <<<<Clamp(x1, rectx1, rectx2), y1>>, <<Clamp(x2, rectx1, rectx2), y2>>>>
        ELSE IF x1 = x2
        THEN <<<<x1, Clamp(y1, recty1, recty2)>>, <<x2, Clamp(y2, recty1, recty2)>>>>
        ELSE ClipLoop(rect, x1, y1, x2, y2, 8)

\* Game.line_hits_wall(x1, y1, x2, y2)
line_hits_wall(obstacles, x1, y1, x2, y2) ==
    \E k \in 1..Len(obstacles) : clipline(obstacles[k], x1, y1, x2, y2) # <<>>

\* min(S, key = f) as a loop with "if d < min_dist" finds it: the first
\* element of S at which f is least
ArgMin(S, f) == CHOOSE k \in S : \A j \in S : f[k] < f[j] \/ (f[k] = f[j] /\ k <= j)

\* the squared distance from <<x1, y1>> to the first point of a clipped
\* segment
EntryDist2(clipped, x1, y1) ==
    IF clipped = <<>> THEN 0
    ELSE (clipped[1][1] - x1) * (clipped[1][1] - x1)
         + (clipped[1][2] - y1) * (clipped[1][2] - y1)

\* Game.get_closest_blocking_wall: the index of the rectangle, or 0
get_closest_blocking_wall(obstacles, x1, y1, x2, y2) ==
    IF ~line_hits_wall(obstacles, x1, y1, x2, y2) THEN 0
    ELSE ArgMin({ k \in 1..Len(obstacles) : clipline(obstacles[k], x1, y1, x2, y2) # <<>> },
                [k \in 1..Len(obstacles) |->
                    EntryDist2(clipline(obstacles[k], x1, y1, x2, y2), x1, y1)])

\* Game.predict_future_position(x, y, vx, vy, frames=40), in pixels
predict_future_position(x, y, vx, vy) == <<Px(x + vx * 40), Px(y + vy * 40)>>

\* the nearest free treasure of step 3 of choose_ai_target (index)
NearestFree(g) ==
    ArgMin({ k \in 1..Len(g.treasures) : g.treasures[k].carried_by = None },
           [k \in 1..Len(g.treasures) |->
               Hypot10(Px(g.coins[1].x) - grid_to_px(g.treasures[k].row, g.treasures[k].col)[1],
                       Px(g.coins[1].y) - grid_to_px(g.treasures[k].row, g.treasures[k].col)[2])])

\* fault: the attack branch tested before the score branch and aimed at
\* the player's present position whatever the distance
choose_ai_target_attack_now(g) ==
    LET player == g.coins[0]
        T == 1..Len(g.treasures)
    IN  IF \E k \in T : g.treasures[k].carried_by = 0
        THEN <<Px(player.x), Px(player.y), "attack">>
        ELSE IF \E k \in T : g.treasures[k].carried_by = ai_index
        THEN <<bases[ai_index].left + bases[ai_index].w \div 2,
               bases[ai_index].top + bases[ai_index].h \div 2, "score">>
        ELSE IF \E k \in T : g.treasures[k].carried_by = None
        THEN <<grid_to_px(g.treasures[NearestFree(g)].row, g.treasures[NearestFree(g)].col)[1],
               grid_to_px(g.treasures[NearestFree(g)].row, g.treasures[NearestFree(g)].col)[2],
               "treasure">>
        ELSE <<Px(player.x), Px(player.y), "attack">>

\* Game.choose_ai_target(): <<target_x, target_y, mode>>, in pixels
choose_ai_target(g) ==
    LET player == g.coins[0]
        ai_coin == g.coins[1]
        T == 1..Len(g.treasures)
    IN  IF \E k \in T : g.treasures[k].carried_by = ai_index
        THEN LET base == bases[ai_index]
             IN  <<base.left + base.w \div 2, base.top + base.h \div 2, "score">>
        ELSE IF \E k \in T : g.treasures[k].carried_by = 0
        THEN IF LenLt(player.x - ai_coin.x, player.y - ai_coin.y, 150 * Q)
             THEN <<Px(player.x), Px(player.y), "attack">>
             ELSE LET f == predict_future_position(player.x, player.y, player.vx, player.vy)
                  IN  <<f[1], f[2], "attack">>
        ELSE IF \E k \in T : g.treasures[k].carried_by = None
        THEN LET best == g.treasures[NearestFree(g)]
                 tp == grid_to_px(best.row, best.col)
             IN  <<tp[1], tp[2], "treasure">>
        ELSE <<Px(player.x), Px(player.y), "attack">>

\* the candidates of adjust_target_for_walls: the corners of rectangle r,
\* 25 pixels out
Corners(r) ==
    << <<r.left - 25, r.top - 25>>,
       <<r.left + r.w + 25, r.top - 25>>,
       <<r.left - 25, r.top + r.h + 25>>,
       <<r.left + r.w + 25, r.top + r.h + 25>> >>

\* the test of one candidate <<wx, wy>> at dist_to_corner from <<sx, sy>>:
\* inside the map, further than 1 pixel and reachable without hitting a
\* wall; check_ratio = (dist_to_corner - 5) / dist_to_corner
CornerReachable(obstacles, sx, sy, wx, wy, dist_to_corner) ==
    /\ MARGIN < wx /\ wx < WIDTH - MARGIN
    /\ MARGIN < wy /\ wy < GRID_ROWS * CELL + MARGIN
    /\ dist_to_corner >= 10
    /\ ~line_hits_wall(obstacles, sx, sy,
                       sx + TruncDiv((wx - sx) * (dist_to_corner - 50), Max2(dist_to_corner, 1)),
                       sy + TruncDiv((wy - sy) * (dist_to_corner - 50), Max2(dist_to_corner, 1)))

\* the candidates (indices) that pass the test
ReachableCorners(obstacles, candidates, sx, sy) ==
    { k \in 1..4 :
        CornerReachable(obstacles, sx, sy, candidates[k][1], candidates[k][2],
                        Hypot10(candidates[k][1] - sx, candidates[k][2] - sy)) }

\* the returned corner shot: s + (cos, sin)(angle) * (best_corner_dist + 60)
CornerShot(sx, sy, best_w, best_corner_dist) ==
    << sx + TruncDiv((best_w[1] - sx) * (best_corner_dist + 600), best_corner_dist),
       sy + TruncDiv((best_w[2] - sy) * (best_corner_dist + 600), best_corner_dist),
       TRUE, best_corner_dist >>

\* the "if found_path" branch for the best candidate best_w
CornerShotTo(sx, sy, best_w) ==
    CornerShot(sx, sy, best_w, Hypot10(best_w[1] - sx, best_w[2] - sy))

\* the candidate loop over the reachable candidates "ok": the one of least
\* total_dist, or the target itself when there is none
ViaCorner(sx, sy, tx, ty, candidates, ok) ==
    IF ok = {} THEN <<tx, ty, FALSE, Hypot10(tx - sx, ty - sy)>>
    ELSE CornerShotTo(sx, sy,
             candidates[ArgMin(ok, [k \in 1..4 |->
                            Hypot10(candidates[k][1] - sx, candidates[k][2] - sy)
                            + Hypot10(tx - candidates[k][1], ty - candidates[k][2])])])

\* adjust_target_for_walls once the blocking rectangle (index b, or 0) is
\* known
AroundWall(obstacles, sx, sy, tx, ty, b) ==
    IF b = 0 THEN <<tx, ty, FALSE, Hypot10(tx - sx, ty - sy)>>
    ELSE ViaCorner(sx, sy, tx, ty, Corners(obstacles[b]),
                   ReachableCorners(obstacles, Corners(obstacles[b]), sx, sy))

\* Game.adjust_target_for_walls(sx, sy, tx, ty):
\* <<x, y, is_corner_shot, dist_to_corner>>, pixels and tenths of a pixel
adjust_target_for_walls(obstacles, sx, sy, tx, ty) ==
    AroundWall(obstacles, sx, sy, tx, ty, get_closest_blocking_wall(obstacles, sx, sy, tx, ty))

\* dist_point_to_segment(px, py, x1, y1, x2, y2), pixels in, tenths out
dist_point_to_segment(px, py, x1, y1, x2, y2) ==
    LET dx == x2 - x1
        dy == y2 - y1
    IN  IF dx = 0 /\ dy = 0 THEN Hypot10(px - x1, py - y1)
        ELSE LET dot == (px - x1) * dx + (py - y1) * dy
                 len2 == dx * dx + dy * dy
                 \* t clamped to [0, 1], in thousandths
                 t == Clamp(TruncDiv(dot * 1000, len2), 0, 1000)
                 proj_x == x1 + TruncDiv(t * dx, 1000)
                 proj_y == y1 + TruncDiv(t * dy, 1000)
             IN  Hypot10(px - proj_x, py - proj_y)

\* Game.scan_for_bad_items(sx, sy, tx, ty)
scan_for_bad_items(g, sx, sy, tx, ty) ==
    \E n \in {"stop", "redirect"} :
        /\ g.items[n] # <<>>
        /\ LET ip == grid_to_px(g.items[n][1], g.items[n][2])
           IN  dist_point_to_segment(ip[1], ip[2], sx, sy, tx, ty) < 350

\* cos and sin of 10, 20 and 30 degrees, in thousandths
CosSin == << <<985, 174>>, <<985, 0 - 174>>, <<940, 342>>, <<940, 0 - 342>>,
             <<866, 500>>, <<866, 0 - 500>> >>

\* Game.adjust_target_to_avoid_bad_items(sx, sy, tx, ty)
adjust_target_to_avoid_bad_items(g, sx, sy, tx, ty) ==
    IF ~scan_for_bad_items(g, sx, sy, tx, ty) THEN <<tx, ty>>
    ELSE LET dx == tx - sx
             dy == ty - sy
             \* s + dist * (cos, sin)(angle + deg)
             N(k) == <<sx + TruncDiv(dx * CosSin[k][1] - dy * CosSin[k][2], 1000),
                       sy + TruncDiv(dy * CosSin[k][1] + dx * CosSin[k][2], 1000)>>
             ok == { k \in 1..6 : /\ ~line_hits_wall(g.obstacles, sx, sy, N(k)[1], N(k)[2])
                                  /\ ~scan_for_bad_items(g, sx, sy, N(k)[1], N(k)[2]) }
         IN  IF ok = {} THEN <<tx, ty>> ELSE N(First(ok))

\* Game.adjust_target_to_avoid_player(sx, sy, tx, ty)
adjust_target_to_avoid_player(g, sx, sy, tx, ty) ==
    LET player == g.coins[0]
        px == Px(player.x)
        py == Px(player.y)
        offset == 80
        candidates == << <<tx + offset, ty>>, <<tx - offset, ty>>,
                         <<tx, ty + offset>>, <<tx, ty - offset>> >>
        ok == { k \in 1..4 :
                  /\ dist_point_to_segment(px, py, sx, sy, candidates[k][1], candidates[k][2])
                        > (player.r + 12) * 10
                  /\ ~line_hits_wall(g.obstacles, sx, sy, candidates[k][1], candidates[k][2]) }
    IN  IF dist_point_to_segment(px, py, sx, sy, tx, ty) > (player.r + 8) * 10 THEN <<tx, ty>>
        ELSE IF ok = {} THEN <<tx, ty>>
        ELSE candidates[First(ok)]

\* the shot power of update_ai (lines 673-689), in Q units; distances are in
\* tenths of a pixel
AiPower(mode, is_corner_shot, dist_to_corner, dist_total) ==
    IF mode = "reposition" THEN Min2(MAX_SHOT_POWER, 10 * Q)
    ELSE IF is_corner_shot
    THEN IF mode = "score"
         THEN Min2(7 * Q, Min2(MAX_SHOT_POWER, (dist_to_corner * 10) \div 18 + 250))
         ELSE IF mode = "attack"
         THEN Min2(9 * Q, Min2(MAX_SHOT_POWER, (dist_to_corner * 10) \div 18 + 250))
         ELSE Min2(MAX_SHOT_POWER, (dist_to_corner * 10) \div 18 + 250)
    ELSE IF mode = "score" THEN Max2(Min2(10 * Q, (dist_total * 10) \div 25), 4 * Q)
    ELSE IF mode = "attack"
    THEN Min2(MAX_SHOT_POWER, (dist_total * 10) \div 12 + 350)
    ELSE Min2(MAX_SHOT_POWER, (dist_total * 10) \div 15)

\* the launch of update_ai: the velocity of length "power" along <<dx, dy>>
AiLaunch(g, dx, dy, dist_total, power) ==
    [Launch(g, IF dist_total > 0
               THEN TruncDiv(dx * 10 * power, ISqrtUp(100 * (dx * dx + dy * dy))) ELSE 0,
               IF dist_total > 0
               THEN TruncDiv(dy * 10 * power, ISqrtUp(100 * (dx * dx + dy * dy))) ELSE 0)
       EXCEPT !.ai_thinking = FALSE]

\* update_ai from the final target t on: distance, power, launch
AiFire(g, sx, sy, t, mode, is_corner_shot, dist_to_corner) ==
    AiLaunch(g, t[1] - sx, t[2] - sy, Hypot10(t[1] - sx, t[2] - sy),
             AiPower(mode, is_corner_shot, dist_to_corner, Hypot10(t[1] - sx, t[2] - sy)))

\* update_ai from the item-avoiding target t on: the player is avoided
\* unless the shot is an attack
AiAvoidPlayer(g, sx, sy, t, mode, is_corner_shot, dist_to_corner) ==
    AiFire(g, sx, sy,
           IF mode # "attack" THEN adjust_target_to_avoid_player(g, sx, sy, t[1], t[2]) ELSE t,
           mode, is_corner_shot, dist_to_corner)

\* update_ai from the target of the given mode on: the bad items are avoided
AiAvoidItems(g, sx, sy, tx, ty, mode, is_corner_shot, dist_to_corner) ==
    AiAvoidPlayer(g, sx, sy, adjust_target_to_avoid_bad_items(g, sx, sy, tx, ty),
                  mode, is_corner_shot, dist_to_corner)

\* update_ai from the wall-adjusted target w on: a scoring shot that is
\* still blocked becomes a reposition shot toward the centre of the map
AiReposition(g, sx, sy, mode, w) ==
    IF mode = "score" /\ ~w[3] /\ line_hits_wall(g.obstacles, sx, sy, w[1], w[2])
    THEN AiAvoidItems(g, sx, sy, WIDTH \div 2, (GRID_ROWS * CELL + MARGIN * 2) \div 2,
                      "reposition", w[3], w[4])
    ELSE AiAvoidItems(g, sx, sy, w[1], w[2], mode, w[3], w[4])

\* update_ai from the chosen target tgt on
AiAim(g, sx, sy, tgt) ==
    AiReposition(g, sx, sy, tgt[3],
                 adjust_target_for_walls(g.obstacles, sx, sy, tgt[1], tgt[2]))

\* the shot of update_ai once the think delay has passed (lines 648-700)
AiShot(g) ==
    AiAim(g, Px(g.coins[ai_index].x), Px(g.coins[ai_index].y), choose_ai_target(g))

\* one frame of the clock, in milliseconds
FrameMs == 250

\* random.randint(1000, 2000)
ThinkDelays == {1000, 2000}

\* fault: update_ai that shoots in the first eligible frame, without arming
\* the think timer
UpdateAiNoDelay(g) ==
    IF g.match_over THEN { g }
    ELSE IF g.turn # ai_index THEN { [g EXCEPT !.ai_thinking = FALSE] }
    ELSE IF g.awaiting_switch THEN { g }
    ELSE IF ~g.coins[ai_index].resting THEN { g }
    ELSE { AiShot(g) }

\* Game.update_ai(): the set of possible results.  g.clock is
\* pygame.time.get_ticks() counted from the arming of the think timer.
UpdateAi(g) ==
    IF g.match_over THEN { g }
    ELSE IF g.turn # ai_index THEN { [g EXCEPT !.ai_thinking = FALSE] }
    ELSE IF g.awaiting_switch THEN { g }
    ELSE IF ~g.coins[ai_index].resting THEN { g }
    ELSE IF ~g.ai_thinking
    THEN { [g EXCEPT !.ai_thinking = TRUE,
                     !.clock = 0,
                     !.ai_think_until = d,
                     !.trace.ai_started = TRUE] : d \in ThinkDelays }
    ELSE IF g.clock < g.ai_think_until THEN { g }
    ELSE { AiShot(g) }

\* fault: steps 3 to 7 with the turn-switch step executed after scoring too
AfterItemsSwitchToo(g) ==
    LET cc == ResolveCoinCollision(g.coins[0], g.coins[1])
        g1 == Mark([g EXCEPT !.coins = [i \in Sides |-> cc[i + 1]]], "coll")
        g2 == Mark(TreasurePickup(g1), "pick")
        g3 == Mark(Steal(g2), "steal")
    IN  IF Scorer(g3) # None
        THEN UNION { Resolve(h) : h \in Score(g3, Scorer(g3)) }
        ELSE TurnSwitch(g3)

\* fault: steps 3 to 7 of update_logic with the scoring step before the
\* steal step
AfterItemsScoreFirst(g) ==
    LET cc == ResolveCoinCollision(g.coins[0], g.coins[1])
        g1 == Mark([g EXCEPT !.coins = [i \in Sides |-> cc[i + 1]]], "coll")
        g2 == Mark(TreasurePickup(g1), "pick")
    IN  IF Scorer(g2) # None
        THEN Score(Mark(g2, "steal"), Scorer(g2))
        ELSE TurnSwitch(Mark(Steal(g2), "steal"))

\* steps 3 to 7 of update_logic: collision, treasure pickup, steal, scoring
\* (which returns) and turn switch
AfterItems(g) ==
    LET cc == ResolveCoinCollision(g.coins[0], g.coins[1])
        g1 == Mark([g EXCEPT !.coins = [i \in Sides |-> cc[i + 1]]], "coll")
        g2 == Mark(TreasurePickup(g1), "pick")
        g3 == Mark(Steal(g2), "steal")
    IN  IF Scorer(g3) # None THEN Score(g3, Scorer(g3)) ELSE TurnSwitch(g3)

\* fault: steps 1 and 2 of update_logic with the collision resolved before
\* the item pickup
MoveAndItemsCollisionFirst(g) ==
    LET last_positions == [i \in Sides |-> <<g.coins[i].x, g.coins[i].y>>]
        cc == ResolveCoinCollision(CoinUpdate(g.coins[0], g.obstacles),
                                   CoinUpdate(g.coins[1], g.obstacles))
        g1 == Mark([g EXCEPT !.coins = [i \in Sides |-> cc[i + 1]],
                             !.trace.last_positions = last_positions], "moved")
    IN  UNION { AfterItems(Mark(h, "items")) : h \in CheckItemPickup(g1, last_positions) }

\* steps 1 and 2 of update_logic: last_positions, Coin.update, item pickup
MoveAndItems(g) ==
    LET last_positions == [i \in Sides |-> <<g.coins[i].x, g.coins[i].y>>]
        moved == [i \in Sides |-> CoinUpdate(g.coins[i], g.obstacles)]
        g1 == Mark([g EXCEPT !.coins = moved,
                             !.trace.last_positions = last_positions], "moved")
    IN  UNION { AfterItems(Mark(h, "items")) : h \in CheckItemPickup(g1, last_positions) }

\* the game with all the stages of update_logic taken now
MarkAll(g) ==
    [g EXCEPT !.trace.stage =
        [n \in StageNames |-> IF n \in {"start", "keys", "input"} THEN @[n] ELSE Snap(g)]]

\* fault: update_logic without its return on match_over
UpdateLogicNoFreeze(g) ==
    LET g1 == [g EXCEPT !.trace.ran = TRUE]
        withAi == IF g.variant = "game2" /\ g.turn = ai_index
                  THEN UpdateAi(g1) ELSE { g1 }
    IN  UNION { MoveAndItems(Mark(h, "ai")) : h \in withAi }

\* Game.update_logic(): the set of possible results
UpdateLogic(g) ==
    IF g.match_over THEN { MarkAll(g) }
    ELSE LET g1 == [g EXCEPT !.trace.ran = TRUE]
             withAi == IF g.variant = "game2" /\ g.turn = ai_index
                       THEN UpdateAi(g1) ELSE { g1 }
         IN  UNION { MoveAndItems(Mark(h, "ai")) : h \in withAi }

\* fault: the K_r branch without the reset of the win counters
ResetKeepsWins(g) ==
    UNION { StartRound([g EXCEPT !.match_over = FALSE,
                                 !.obstacles = d[1],
                                 !.trace.reset = TRUE], d[2]) : d \in ResetDraws }

\* the K_r branch of handle_global_keys: the set of possible results
Reset(g) ==
    UNION { StartRound([g EXCEPT !.match_wins = [i \in Sides |-> 0],
                                 !.match_over = FALSE,
                                 !.obstacles = d[1],
                                 !.trace.reset = TRUE], d[2]) : d \in ResetDraws }

\* one iteration of the loop of Game.run(): clock.tick, the global keys,
\* handle_shot_input and update_logic
RunFrame(g, reset, events, mouse, rnd) ==
    LET g0 == [g EXCEPT !.trace = FreshTrace(g),
                        !.clock = IF g.ai_thinking
                                  THEN Min2(@ + FrameMs, g.ai_think_until) ELSE 0]
        afterKeys == IF reset THEN Reset(g0) ELSE { g0 }
    IN  UNION { UpdateLogic(Mark(HandleShotInput(Mark(h, "keys"), events, mouse, rnd), "input")) :
                  h \in afterKeys }

(***************************************************************************)
(* The state machine                                                       *)
(***************************************************************************)
VARIABLES variant, coins, treasures, match_wins, turn, extra_turn,
          awaiting_switch, dragging, drag_start, match_over, total_turns,
          obstacles, items, ai_thinking, ai_think_until, clock, treasures_made,
          trace, inputs

vars == <<variant, coins, treasures, match_wins, turn, extra_turn,
          awaiting_switch, dragging, drag_start, match_over, total_turns,
          obstacles, items, ai_thinking, ai_think_until, clock, treasures_made,
          trace, inputs>>

\* the Game object
G ==
    [variant |-> variant, coins |-> coins, treasures |-> treasures,
     match_wins |-> match_wins, turn |-> turn, extra_turn |-> extra_turn,
     awaiting_switch |-> awaiting_switch, dragging |-> dragging,
     drag_start |-> drag_start, match_over |-> match_over,
     total_turns |-> total_turns, obstacles |-> obstacles, items |-> items,
     ai_thinking |-> ai_thinking, ai_think_until |-> ai_think_until,
     clock |-> clock, treasures_made |-> treasures_made, trace |-> trace]

IsGame(h) ==
    /\ variant = h.variant
    /\ coins = h.coins
    /\ treasures = h.treasures
    /\ match_wins = h.match_wins
    /\ turn = h.turn
    /\ extra_turn = h.extra_turn
    /\ awaiting_switch = h.awaiting_switch
    /\ dragging = h.dragging
    /\ drag_start = h.drag_start
    /\ match_over = h.match_over
    /\ total_turns = h.total_turns
    /\ obstacles = h.obstacles
    /\ items = h.items
    /\ ai_thinking = h.ai_thinking
    /\ ai_think_until = h.ai_think_until
    /\ clock = h.clock
    /\ treasures_made = h.treasures_made
    /\ trace = h.trace

\* the player's launches and resets of the frame that led to the game h
\* (a launch on the AI's turn is the AI's)
Inputs(h) ==
    (IF h.variant = "game2" /\ h.trace.stage["input"].turn = ai_index
     THEN 0 ELSE h.trace.launches)
    + (IF h.trace.reset THEN 1 ELSE 0)

\* the frame leads to the game h, within the bound on inputs
Becomes(h) ==
    /\ inputs + Inputs(h) <= MaxInputs
    /\ inputs' = inputs + Inputs(h)
    /\ variant' = h.variant
    /\ coins' = h.coins
    /\ treasures' = h.treasures
    /\ match_wins' = h.match_wins
    /\ turn' = h.turn
    /\ extra_turn' = h.extra_turn
    /\ awaiting_switch' = h.awaiting_switch
    /\ dragging' = h.dragging
    /\ drag_start' = h.drag_start
    /\ match_over' = h.match_over
    /\ total_turns' = h.total_turns
    /\ obstacles' = h.obstacles
    /\ items' = h.items
    /\ ai_thinking' = h.ai_thinking
    /\ ai_think_until' = h.ai_think_until
    /\ clock' = h.clock
    /\ treasures_made' = h.treasures_made
    /\ trace' = h.trace

Init ==
    /\ inputs = 0
    /\ \E v \in {"game", "game2"} : \E h \in NewGame(v) : IsGame(h)

\* a coin at pixel (x, y) with velocity (vx, vy) in Q units per frame
CoinAt(x, y, vx, vy, carrying) ==
    [NewCoin(x, y) EXCEPT !.vx = vx, !.vy = vy, !.carrying = carrying,
                          !.resting = (vx = 0 /\ vy = 0)]

NoItems == [n \in {"extra", "stop", "redirect"} |-> <<>>]

ItemAt(name, rc) == [NoItems EXCEPT ![name] = rc]

\* the game of variant v during a shot of side t: the coins c0 and c1, the
\* round's treasure of cell rc carried by "by", the items its, the extra-turn
\* flag, the wins and the turns played
MidShot(v, t, c0, c1, by, rc, its, extra, wins, turns) ==
    LET g == [Constructed(v, MapFileLayout) EXCEPT
                 !.coins = [i \in Sides |-> IF i = 0 THEN c0 ELSE c1],
                 !.treasures = << [NewTreasure(rc, 1) EXCEPT !.carried_by = by] >>,
                 !.treasures_made = 1,
                 !.items = its,
                 !.turn = t,
                 !.extra_turn = extra,
                 !.awaiting_switch = TRUE,
                 !.match_wins = [i \in Sides |-> wins[i + 1]],
                 !.total_turns = turns]
    IN  [g EXCEPT !.trace = FreshTrace(g)]

\* the positions the coins have at a round start
Home0 == CoinAt(MARGIN + 20, (GRID_ROWS * CELL + MARGIN * 2) \div 2, 0, 0, None)
Home1 == CoinAt(WIDTH - MARGIN - 20, (GRID_ROWS * CELL + MARGIN * 2) \div 2, 0, 0, None)

\* games in the middle of a shot, one per case of steps 2 to 7 of
\* update_logic: pickup by the shooter and by the coin it pushed, the two
\* coins meeting with the treasure on either side, a carrier reaching its
\* base with the match open or at match point, one coin (the shooter's or
\* the one it pushed) or both entering the radius of an item, a coin that
\* was already inside it, a coin entering the radius of an item in the frame
\* in which it runs into the other coin, a carrier on its second shot coming
\* to rest beside the other coin, a carrier crossing the edge of its base as
\* the shooter comes within reach, a carrier coming within reach of the
\* shooter at rest in its base, the shooter running into a coin that came
\* to rest against the right wall
MidShots(v) ==
    { MidShot(v, 0, CoinAt(320, 265, 100, 0, None), Home1, None, <<2, 3>>,
              ItemAt("stop", <<1, 5>>), FALSE, <<0, 0>>, 0),
      MidShot(v, 0, CoinAt(610, 265, 0, 0, None), CoinAt(570, 265, 0 - 100, 0, None),
              None, <<2, 5>>, ItemAt("stop", <<1, 3>>), FALSE, <<0, 0>>, 0),
      MidShot(v, 1, CoinAt(300, 265, 0, 0, 1), CoinAt(345, 265, 0 - 100, 0, None),
              0, <<2, 3>>, NoItems, FALSE, <<0, 0>>, 2),
      MidShot(v, 0, CoinAt(300, 265, 100, 0, 1), CoinAt(345, 265, 0, 0, None),
              0, <<2, 3>>, NoItems, TRUE, <<0, 0>>, 0),
      MidShot(v, 0, CoinAt(150, 265, 0 - 100, 0, 1), Home1,
              0, <<2, 3>>, NoItems, FALSE, <<0, 0>>, 2),
      MidShot(v, 0, CoinAt(150, 265, 0 - 100, 0, 1), Home1,
              0, <<2, 3>>, NoItems, FALSE, <<1, 0>>, 2),
      MidShot(v, 1, CoinAt(150, 265, 0 - 100, 0, 1), CoinAt(185, 265, 0, 0, None),
              0, <<2, 3>>, NoItems, FALSE, <<0, 1>>, 3),
      MidShot(v, 1, Home0, CoinAt(740, 265, 100, 0, 1),
              1, <<2, 5>>, NoItems, FALSE, <<0, 1>>, 3),
      MidShot(v, 1, CoinAt(200, 265, 0, 0, None), CoinAt(381, 265, 0 - 100, 0, None),
              None, <<2, 5>>, ItemAt("stop", <<2, 3>>), FALSE, <<0, 0>>, 7),
      MidShot(v, 1, CoinAt(200, 265, 0, 0, None), CoinAt(375, 265, 100, 0, None),
              None, <<2, 5>>, ItemAt("extra", <<2, 3>>), FALSE, <<0, 0>>, 7),
      MidShot(v, 0, CoinAt(425, 265, 0 - 15, 0, None), CoinAt(385, 265, 0 - 100, 0, None),
              None, <<2, 5>>, ItemAt("redirect", <<2, 3>>), FALSE, <<0, 0>>, 0),
      MidShot(v, 0, CoinAt(327, 265, 300, 0, None), CoinAt(355, 265, 0, 0, None),
              None, <<2, 5>>, ItemAt("stop", <<2, 3>>), FALSE, <<0, 0>>, 6),
      MidShot(v, 0, CoinAt(300, 265, 100, 0, 1), CoinAt(361, 265, 0, 0, None),
              0, <<2, 3>>, NoItems, FALSE, <<0, 0>>, 2),
      MidShot(v, 1, CoinAt(130, 265, 0 - 100, 0, 1), CoinAt(164, 265, 0 - 200, 0, None),
              0, <<2, 3>>, NoItems, FALSE, <<0, 0>>, 3),
      MidShot(v, 0, CoinAt(100, 265, 0, 0, None), CoinAt(134, 265, 0 - 100, 0, 1),
              1, <<2, 3>>, NoItems, FALSE, <<0, 0>>, 2),
      MidShot(v, 0, CoinAt(800, 265, 1000, 0, None),
              CoinAt(WIDTH - MARGIN - COIN_R, 265, 0, 0, None),
              None, <<2, 3>>, NoItems, FALSE, <<0, 0>>, 1) }
    \cup { MidShot(v, t, CoinAt(230, 265, 100, 0, None), Home1, None, <<2, 5>>,
                   ItemAt(n, <<2, 2>>), FALSE, <<0, 0>>, t) :
             n \in {"extra", "stop", "redirect"}, t \in Sides }
    \cup { MidShot(v, 0, CoinAt(417, 265, 100, 0, None), CoinAt(473, 265, 0 - 100, 0, None),
                   None, <<1, 3>>, ItemAt(n, <<2, 4>>), FALSE, <<0, 0>>, 0) :
             n \in {"extra", "stop", "redirect"} }

\* a game in the middle of a shot, with the bound on inputs used up
MidInit ==
    /\ inputs = MaxInputs
    /\ \E v \in {"game", "game2"} : \E h \in MidShots(v) : IsGame(h)

NoRnd == <<0, 0>>

\* handle_shot_input gets past its early returns
AcceptsInput ==
    /\ ~awaiting_switch
    /\ ~match_over
    /\ ~(variant = "game2" /\ turn # 0)
    /\ coins[turn].resting

\* the frames in which the model's player touches the mouse or the keys:
\* while no shot is in flight, and in the frame after a launch
InputMoment == ~awaiting_switch \/ trace.launches > 0

\* a frame without input events
Tick ==
    \E h \in RunFrame(G, FALSE, <<>>, <<0, 0>>, NoRnd) : Becomes(h)

\* the mouse positions of a press: at an offset from the current coin
\* (one position when the input is ignored anyway)
PressPositions ==
    IF AcceptsInput
    THEN { <<Px(coins[turn].x) + o[1], Px(coins[turn].y) + o[2]>> : o \in PressOffsets }
    ELSE { <<0, 0>> }

\* a frame with a MOUSEBUTTONDOWN event
Press ==
    /\ InputMoment
    /\ \E mouse \in PressPositions :
           \E h \in RunFrame(G, FALSE, <<"DOWN">>, mouse, NoRnd) : Becomes(h)

\* the mouse positions of a release: at a displacement from drag_start
\* (one position when the input is ignored anyway)
ReleasePositions ==
    IF AcceptsInput /\ dragging
    THEN { <<drag_start[1] + d[1], drag_start[2] + d[2]>> : d \in DragChoices }
    ELSE { <<0, 0>> }

\* a frame with a MOUSEBUTTONUP event
Release ==
    /\ InputMoment
    /\ \E mouse \in ReleasePositions :
           \E h \in RunFrame(G, FALSE, <<"UP">>, mouse, NoRnd) : Becomes(h)

\* a frame with a K_SPACE event
Nudge ==
    /\ InputMoment
    /\ \E u \in (IF AcceptsInput THEN NudgeDraws ELSE {NoRnd}) :
           \E h \in RunFrame(G, FALSE, <<"SPACE">>, <<0, 0>>, u) : Becomes(h)

\* a frame with a K_r event
ResetKey ==
    /\ InputMoment
    /\ inputs < MaxInputs
    /\ \E h \in RunFrame(G, TRUE, <<>>, <<0, 0>>, NoRnd) : Becomes(h)

Next == Tick \/ Press \/ Release \/ Nudge \/ ResetKey

Spec == Init /\ [][Next]_vars

\* the same machine started after construction or in the middle of a shot
SpecMid == (Init \/ MidInit) /\ [][Next]_vars

(***************************************************************************)
(* Coin.update on its own: one coin, placed anywhere in the arena with any *)
(* velocity, updated again and again against a fixed obstacle list.  In    *)
(* this specification trace is the log of the last call: trace.ran says    *)
(* that a call was made and Stage("start") is the game before it.          *)
(***************************************************************************)
\* a map file with one rectangle 5 pixels from the left wall
EdgeLayout == << Rect(MARGIN + 5, 200, 40, 100) >>

\* the obstacle lists passed to Coin.update
StepObstacles == {<< >>, DefaultLayout, EdgeLayout}

\* the positions of the coin before the first call (pixels): the corners
\* of the arena, the middle, and against the left wall above EdgeLayout
StepPositions ==
    { <<MARGIN + COIN_R, MARGIN + COIN_R>>,
      <<WIDTH - MARGIN - COIN_R, GRID_ROWS * CELL + MARGIN - COIN_R>>,
      <<WIDTH \div 2, 200>>,
      <<MARGIN + COIN_R, 195>> }

\* the velocities of the coin before the first call (Q units per frame):
\* below MIN_SPEED, at MIN_SPEED, shots up to MAX_SHOT_POWER and beyond
StepVelocities ==
    { <<20, 0 - 10>>, <<34, 0 - 34>>, <<35, 0>>, <<0, 0 - 35>>,
      <<600, 0 - 200>>, <<0 - 1600, 900>>, <<0, 1600>>,
      <<5000, 0 - 5000>>, <<0 - 100000, 100000>> }

StepInit ==
    /\ inputs = 0
    /\ \E obs \in StepObstacles : \E p \in StepPositions : \E v \in StepVelocities :
          LET g == [Constructed("game", obs) EXCEPT
                       !.coins[0] = CoinAt(p[1], p[2], v[1], v[2], None)]
          IN  IsGame([g EXCEPT !.trace = FreshTrace(g)])

\* one call of coins[0].update(obstacles)
UpdateStep ==
    /\ coins' = [coins EXCEPT ![0] = CoinUpdate(coins[0], obstacles)]
    /\ trace' = [FreshTrace(G) EXCEPT !.ran = TRUE]
    /\ UNCHANGED <<variant, treasures, match_wins, turn, extra_turn, awaiting_switch,
                   dragging, drag_start, match_over, total_turns, obstacles, items,
                   ai_thinking, ai_think_until, clock, treasures_made, inputs>>

\* the calls are repeated for ever: the frame loop calls update every frame
SpecStep == StepInit /\ [][UpdateStep]_vars /\ WF_vars(UpdateStep)

\* the two rectangles of the built-in layout a coin is sent into: the left
\* column and the central bar
LeftColumn == DefaultLayout[1]
CentralBar == DefaultLayout[4]

\* the obstacle lists of the obstacle response: each rectangle alone, and
\* the built-in layout, whose central bar overlaps its middle column
BounceObstacles == {<< LeftColumn >>, << CentralBar >>, DefaultLayout}

\* the coin before the call, <<x, y, vx, vy>> (pixels, Q units per frame):
\* one call at 6 pixels per frame puts the centre on the middle line of the
\* column, at equal depth from two of its sides, 7 pixels outside it, on
\* its left and right edges, and on the middle line and near the bottom of
\* the bar
BounceCases ==
    { <<259, 100, 600, 0>>, <<254, 82, 600, 600>>, <<276, 82, 0 - 600, 600>>,
      <<244, 100, 600, 0>>, <<251, 100, 600, 0>>, <<279, 100, 0 - 600, 0>>,
      <<400, 259, 0, 600>>, <<400, 278, 0, 0 - 600>> }

BounceInit ==
    /\ inputs = 0
    /\ \E obs \in BounceObstacles : \E b \in BounceCases :
          LET g == [Constructed("game", obs) EXCEPT
                       !.coins[0] = CoinAt(b[1], b[2], b[3], b[4], None)]
          IN  IsGame([g EXCEPT !.trace = FreshTrace(g)])

\* Coin.update called every frame on a coin sent into an obstacle
SpecBounce == BounceInit /\ [][UpdateStep]_vars /\ WF_vars(UpdateStep)

(***************************************************************************)
(* resolve_coin_collision on its own: coin 0 in the middle of the arena,   *)
(* coin 1 placed around it, each with a velocity of its own.  trace is the *)
(* log of the last call, as in SpecStep.                                   *)
(***************************************************************************)
\* the place of coin 1 relative to coin 0 (pixels): on top of it,
\* overlapping it along the axes and diagonals, touching it, and clear
CollideOffsets ==
    { <<0, 0>>, <<20, 0>>, <<0 - 20, 0>>, <<0, 20>>, <<12, 16>>, <<0 - 17, 0 - 22>>,
      <<2 * COIN_R, 0>>, <<27, 8>>, <<40, 0>> }

\* the velocities of coin 0 and of coin 1 (Q units per frame)
CollideVelocities0 ==
    { <<0, 0>>, <<100, 0>>, <<0 - 100, 0>>, <<0, 100>>, <<60, 80>>, <<300, 0 - 50>> }

CollideVelocities1 ==
    { <<0, 0>>, <<0 - 100, 0>>, <<100, 0>>, <<0, 0 - 100>>, <<0 - 60, 0 - 80>> }

CollideInit ==
    /\ inputs = 0
    /\ \E v \in {"game", "game2"} : \E o \in CollideOffsets :
       \E v0 \in CollideVelocities0 : \E v1 \in CollideVelocities1 :
          LET g == [Constructed(v, << >>) EXCEPT
                       !.coins[0] = CoinAt(400, 265, v0[1], v0[2], None),
                       !.coins[1] = CoinAt(400 + o[1], 265 + o[2], v1[1], v1[2], None)]
          IN  IsGame([g EXCEPT !.trace = FreshTrace(g)])

\* one call of resolve_coin_collision(coins[0], coins[1])
CollideStep ==
    /\ coins' = [i \in Sides |-> ResolveCoinCollision(coins[0], coins[1])[i + 1]]
    /\ trace' = [FreshTrace(G) EXCEPT !.ran = TRUE]
    /\ UNCHANGED <<variant, treasures, match_wins, turn, extra_turn, awaiting_switch,
                   dragging, drag_start, match_over, total_turns, obstacles, items,
                   ai_thinking, ai_think_until, clock, treasures_made, inputs>>

SpecCollide == CollideInit /\ [][CollideStep]_vars

(***************************************************************************)
(* The launches alone: games about to take a shot (a drag in progress or   *)
(* not on the player's turn, the think delay about to run out on the AI's) *)
(* and the frames that follow one release, nudge or AI shot                *)
(***************************************************************************)
\* mouse displacements between press and release (pixels): none, at and
\* just over the 0.1 threshold, below, at and over MAX_SHOT_POWER
ShotDisplacements ==
    { <<0, 0>>, <<1, 0>>, <<1, 1>>, <<0 - 60, 0>>, <<0, 160>>, <<96, 0 - 128>>,
      <<0 - 200, 150>>, <<300, 400>>, <<0 - 700, 5>>, <<161, 0>> }

\* the games at a round start on the map of the maps folder, with either
\* side to move
ShotGames(v) ==
    { [h EXCEPT !.trace = FreshTrace(h)] :
        h \in UNION { StartRound([Constructed(v, MapFileLayout) EXCEPT
                                     !.trace = FreshTrace(Constructed(v, MapFileLayout))], t) :
                        t \in Sides } }

\* the game h with a drag begun at offset o from the turn's coin
Armed(h, o) ==
    [h EXCEPT !.dragging = TRUE,
              !.drag_start = <<Px(h.coins[h.turn].x) + o[1], Px(h.coins[h.turn].y) + o[2]>>]

\* the game h one frame before the AI's think delay runs out
Ripe(h) ==
    [h EXCEPT !.ai_thinking = TRUE, !.ai_think_until = 1000, !.clock = 3 * FrameMs]

ShotInit ==
    /\ inputs = MaxInputs - 1
    /\ \E v \in {"game", "game2"} : \E h \in ShotGames(v) :
          IF v = "game2" /\ h.turn = ai_index
          THEN IsGame(Ripe(h))
          ELSE IsGame(h) \/ IsGame(Armed(h, <<10, 0 - 10>>))

\* a frame with a MOUSEBUTTONUP event at a displacement from drag_start
ShotRelease ==
    /\ InputMoment
    /\ \E d \in ShotDisplacements :
          \E h \in RunFrame(G, FALSE, <<"UP">>,
                            <<drag_start[1] + d[1], drag_start[2] + d[2]>>, NoRnd) :
             Becomes(h)

\* a frame with a K_SPACE event, the draws at the ends of their ranges
ShotNudge ==
    /\ InputMoment
    /\ \E u \in (IF AcceptsInput THEN UniformDraws ELSE {NoRnd}) :
          \E h \in RunFrame(G, FALSE, <<"SPACE">>, <<0, 0>>, u) : Becomes(h)

ShotNext == Tick \/ ShotRelease \/ ShotNudge

SpecShot == ShotInit /\ [][ShotNext]_vars

(***************************************************************************)
(* The reset alone: the games in the middle of a shot, followed to their   *)
(* end (rest, score, match over), with one K_r at any frame                *)
(***************************************************************************)
ResetInit ==
    /\ inputs = MaxInputs - 1
    /\ \E v \in {"game", "game2"} : \E h \in MidShots(v) : IsGame(h)

\* a frame with a K_r event, whatever the state of the game
ResetAnytime ==
    /\ inputs < MaxInputs
    /\ \E h \in RunFrame(G, TRUE, <<>>, <<0, 0>>, NoRnd) : Becomes(h)

ResetNext == Tick \/ ResetAnytime

SpecReset == ResetInit /\ [][ResetNext]_vars

(***************************************************************************)
(* Properties.  They read the game after a frame and the log of the frame: *)
(* Stage(n) is the game as it was at the point n of the frame.             *)
(***************************************************************************)
Stage(n) == trace.stage[n]

ItemKinds == {"extra", "stop", "redirect"}

\* the carry relation of the game or stage s
CarryOk(s) ==
    \A k \in 1..Len(s.treasures) :
        /\ \A i \in Sides :
              (s.coins[i].carrying = s.treasures[k].id) <=> (s.treasures[k].carried_by = i)
        /\ Cardinality({ i \in Sides : s.coins[i].carrying = s.treasures[k].id }) <= 1

\* the centres of the two coins of s are within d pixels of each other
CoinsWithin(s, d) ==
    LenLeq(s.coins[0].x - s.coins[1].x, s.coins[0].y - s.coins[1].y, d * Q)

\* the point (x, y) is within the pickup radius of coin c around cell rc
InRadius(x, y, c, rc) ==
    LenLeq(x - CellPos(rc)[1], y - CellPos(rc)[2], (c.r + 12) * Q)

\* the side carrying the treasure id in s, or None
Carrier(s, id) ==
    IF \E k \in 1..Len(s.treasures) : s.treasures[k].id = id
    THEN s.treasures[CHOOSE k \in 1..Len(s.treasures) : s.treasures[k].id = id].carried_by
    ELSE None

\* the scoring check of the frame found coin i carrying inside base i
ScoringFinds(i) ==
    /\ trace.ran
    /\ Stage("steal").coins[i].carrying # None
    /\ collidepoint(bases[i], Stage("steal").coins[i].x, Stage("steal").coins[i].y)

\* coin p entered the pickup radius of the item of kind n in the frame's
\* movement step
Crosses(p, n) ==
    LET rc == Stage("moved").items[n]
        was == Stage("ai").coins[p]
        is == Stage("moved").coins[p]
    IN  /\ trace.ran
        /\ rc # <<>>
        /\ ~InRadius(was.x, was.y, was, rc)
        /\ InRadius(is.x, is.y, is, rc)

\* C1: in every reachable state, and at every point of a frame, for every
\* treasure t of the active list and every side i, coins[i].carrying is t
\* if and only if t.carried_by = i, and at most one coin carries t
C1_CarryConsistent ==
    /\ CarryOk(G)
    /\ \A n \in StageNames : CarryOk(Stage(n))

\* a steal has just moved the treasure from one coin to the other
C1_Witness ==
    /\ trace.stole # None
    /\ \E k \in 1..Len(treasures) :
          /\ treasures[k].carried_by = trace.stole
          /\ Stage("pick").treasures[k].carried_by = other(trace.stole)

\* C2: input events change only coins[turn]; in game2 they change nothing
\* when turn # 0; update_ai changes only coins[ai_index] and acts only in
\* game2 when turn = ai_index; neither step changes turn
C2_OnlyTurnLaunched ==
    LET k == Stage("keys")
        i == Stage("input")
        a == Stage("ai")
    IN  /\ i.coins[other(k.turn)] = k.coins[other(k.turn)]
        /\ (variant = "game2" /\ k.turn # 0 => i = k)
        /\ a.coins[other(ai_index)] = i.coins[other(ai_index)]
        /\ (a # i => variant = "game2" /\ i.turn = ai_index)
        /\ i.turn = k.turn
        /\ a.turn = i.turn

\* the AI has launched coins[ai_index] in this frame
C2_Witness ==
    /\ variant = "game2"
    /\ Stage("input").turn = ai_index
    /\ Stage("input").coins[ai_index].vx = 0
    /\ Stage("input").coins[ai_index].vy = 0
    /\ Stage("ai").coins[ai_index].vx # 0

\* C3: in a frame whose scoring check finds coin i carrying inside base i,
\* match_wins[i] grows by exactly 1, match_wins[1-i] is unchanged, the
\* deposited treasure is not in the active list, no coin carries anything,
\* and a round is started in the frame if match_wins[i] < ROUNDS_TO_WIN
C3_ScoreEffects ==
    \A i \in Sides :
        ScoringFinds(i) =>
            /\ match_wins[i] = Stage("steal").match_wins[i] + 1
            /\ match_wins[other(i)] = Stage("steal").match_wins[other(i)]
            /\ \A k \in 1..Len(treasures) : treasures[k].id # Stage("steal").coins[i].carrying
            /\ \A j \in Sides : coins[j].carrying = None
            /\ (match_wins[i] < ROUNDS_TO_WIN =>
                    /\ trace.round_started
                    /\ ~match_over
                    /\ Len(treasures) = 1
                    /\ treasures[1].carried_by = None)
            /\ (match_wins[i] >= ROUNDS_TO_WIN => match_over /\ ~trace.round_started)

\* a coin has scored its side's first win and the next round has begun
C3_Witness ==
    \E i \in Sides :
        /\ ScoringFinds(i)
        /\ match_wins[i] = 1
        /\ trace.round_started
        /\ Len(treasures) = 1

\* C4: in a frame whose scoring check fires the turn-switch step does not
\* run: after a round start turn is the opener 1-i, the turn counter is 0
\* and the extra-turn flag is clear; at the end of the match turn, counter
\* and flag are what they were before the scoring check
C4_ScoringPreempts ==
    \A i \in Sides :
        ScoringFinds(i) =>
            /\ ~trace.switched
            /\ (match_over =>
                    /\ turn = Stage("steal").turn
                    /\ total_turns = Stage("steal").total_turns
                    /\ extra_turn = Stage("steal").extra_turn)
            /\ (~match_over =>
                    /\ turn = other(i)
                    /\ total_turns = 0
                    /\ ~extra_turn)
            /\ ~awaiting_switch

\* a coin has scored while a shot was awaiting its resolution, and the
\* match is over
C4_Witness ==
    \E i \in Sides :
        /\ ScoringFinds(i)
        /\ Stage("steal").awaiting_switch
        /\ match_over

\* C5: when no coin moves, awaiting_switch is set and no drag is under way
\* at step 7 (and the frame did not score), turn is kept if the extra-turn
\* flag is set and becomes 1 - turn otherwise, and the flag and
\* awaiting_switch are clear afterwards; step 7 does nothing else, and the
\* flag, once set, stays set until a resolution or a round start
C5_TurnResolution ==
    LET b == Stage("steal")
        fires == /\ trace.ran
                 /\ Scorer(b) = None
                 /\ ~any_moving(b)
                 /\ b.awaiting_switch
                 /\ ~b.dragging
    IN  /\ fires =>
              /\ (b.extra_turn => turn = b.turn)
              /\ (~b.extra_turn => turn = other(b.turn))
              /\ ~extra_turn
              /\ ~awaiting_switch
        /\ (trace.ran /\ ~fires /\ Scorer(b) = None) =>
              /\ turn = b.turn
              /\ extra_turn = b.extra_turn
              /\ awaiting_switch = b.awaiting_switch
        /\ (Stage("start").extra_turn /\ ~extra_turn) =>
              (fires \/ trace.round_started)

\* the side that picked up the treasure during its shot has come to rest
\* and keeps the turn
C5_Witness ==
    /\ trace.switched
    /\ Stage("steal").extra_turn
    /\ turn = Stage("steal").turn
    /\ coins[turn].carrying # None
    /\ ~extra_turn

\* C6: at step 4 a coin carrying nothing within radius + 12 of a free
\* treasure becomes its carrier whoever's turn it is, no coin picks up
\* otherwise, and the extra-turn flag is set by the step exactly when the
\* coin of the side to move picked up
C6_TreasurePickup ==
    LET b == Stage("coll")
        a == Stage("pick")
        Picked(i) == b.coins[i].carrying = None /\ a.coins[i].carrying # None
        FreeNear(i) ==
            { k \in 1..Len(b.treasures) :
                /\ b.treasures[k].carried_by = None
                /\ (i = 1 => a.treasures[k].carried_by # 0)
                /\ InRadius(b.coins[i].x, b.coins[i].y, b.coins[i],
                            <<b.treasures[k].row, b.treasures[k].col>>) }
    IN  trace.ran =>
            /\ \A i \in Sides :
                  /\ Picked(i) =>
                        \E k \in FreeNear(i) :
                            /\ a.coins[i].carrying = b.treasures[k].id
                            /\ a.treasures[k].carried_by = i
                  /\ (b.coins[i].carrying = None /\ FreeNear(i) # {}) => Picked(i)
                  /\ b.coins[i].carrying # None => a.coins[i].carrying = b.coins[i].carrying
            /\ a.extra_turn = (b.extra_turn \/ Picked(b.turn))

\* the coin of the side not to move has picked up the treasure
C6_Witness ==
    LET b == Stage("coll")
        a == Stage("pick")
    IN  /\ trace.ran
        /\ b.coins[other(b.turn)].carrying = None
        /\ a.coins[other(b.turn)].carrying # None
        /\ ~a.extra_turn

\* C7: between any two consecutive points of a frame, and over the whole
\* frame, the carrier of a treasure changes from one side to the other
\* only at step 5 and only to the side to move
C7_StealOnlyByTurn ==
    LET Order == <<"start", "keys", "input", "ai", "moved", "items", "coll", "pick", "steal">>
        Moves(pre, post, id) ==
            /\ Carrier(pre, id) # None
            /\ Carrier(post, id) # None
            /\ Carrier(pre, id) # Carrier(post, id)
    IN  \A id \in 1..treasures_made :
            /\ \A j \in 1..(Len(Order) - 1) :
                  Moves(Stage(Order[j]), Stage(Order[j + 1]), id) =>
                      /\ Order[j] = "pick"
                      /\ Carrier(Stage("steal"), id) = Stage("pick").turn
            /\ ~Moves(Stage("steal"), G, id)
            /\ Moves(Stage("start"), G, id) =>
                  /\ Carrier(G, id) = Stage("pick").turn
                  /\ Carrier(G, id) = turn

\* the coin of the side to move carries the treasure, the other coin
\* carries nothing and is within STEAL_DISTANCE, and the treasure stays
C7_Witness ==
    LET s == Stage("pick")
    IN  /\ trace.ran
        /\ s.coins[s.turn].carrying # None
        /\ s.coins[other(s.turn)].carrying = None
        /\ CoinsWithin(s, STEAL_DISTANCE)
        /\ coins[s.turn].carrying = s.coins[s.turn].carrying

\* C8: at step 5, when the coin of the side to move carries nothing, the
\* other coin carries a treasure and the centres are within STEAL_DISTANCE,
\* the step makes the attacker the carrier, empties the defender, sets the
\* treasure's carried_by to the attacker and sets the extra-turn flag;
\* before and after the step exactly one coin holds the treasure
C8_StealAtomic ==
    LET b == Stage("pick")
        a == Stage("steal")
        t == b.turn
        d == other(b.turn)
    IN  (/\ trace.ran
         /\ b.coins[t].carrying = None
         /\ b.coins[d].carrying # None
         /\ CoinsWithin(b, STEAL_DISTANCE)) =>
            /\ a.coins[t].carrying = b.coins[d].carrying
            /\ a.coins[d].carrying = None
            /\ Carrier(b, b.coins[d].carrying) = d
            /\ Carrier(a, b.coins[d].carrying) = t
            /\ a.extra_turn
            /\ CarryOk(b)
            /\ CarryOk(a)

\* a steal has taken place in a frame that began without the extra-turn flag
C8_Witness ==
    LET b == Stage("pick")
    IN  /\ trace.ran
        /\ b.coins[b.turn].carrying = None
        /\ b.coins[other(b.turn)].carrying # None
        /\ CoinsWithin(b, STEAL_DISTANCE)
        /\ ~b.extra_turn

\* C9: an item is consumed in a frame by a coin only if the coin was
\* farther than radius + 12 from it before the movement step and is within
\* radius + 12 after it; an item some coin so enters is consumed and its
\* slot cleared in that frame; an item no coin so enters stays
C9_EdgeTriggered ==
    trace.ran =>
        \A n \in ItemKinds :
            /\ \A p \in Sides : trace.consumed[n] = p => Crosses(p, n)
            /\ (\E p \in Sides : Crosses(p, n)) =>
                  /\ trace.consumed[n] # None
                  /\ Stage("items").items[n] = <<>>
            /\ ~(\E p \in Sides : Crosses(p, n)) =>
                  /\ trace.consumed[n] = None
                  /\ Stage("items").items[n] = Stage("moved").items[n]

\* a coin that was on the boundary of or inside the pickup radius of an
\* item has moved, is inside the radius, and the item is still there
C9_Witness ==
    \E n \in ItemKinds : \E p \in Sides :
        LET rc == Stage("moved").items[n]
            was == Stage("ai").coins[p]
            is == Stage("moved").coins[p]
        IN  /\ trace.ran
            /\ rc # <<>>
            /\ InRadius(was.x, was.y, was, rc)
            /\ InRadius(is.x, is.y, is, rc)
            /\ is.x # was.x
            /\ items[n] = rc

\* C10: when both coins enter the pickup radius of the same item in the
\* same frame, coin 0 receives the effect, the slot is cleared and coin 1
\* is left as it was
C10_FirstIndexWins ==
    \A n \in ItemKinds :
        (Crosses(0, n) /\ Crosses(1, n)) =>
            LET b == Stage("moved")
                a == Stage("items")
            IN  /\ trace.consumed[n] = 0
                /\ a.items[n] = <<>>
                /\ (\A m \in ItemKinds \ {n} : ~Crosses(1, m)) => a.coins[1] = b.coins[1]
                /\ n = "stop" => a.coins[0].vx = 0 /\ a.coins[0].vy = 0
                /\ n = "redirect" =>
                      /\ <<a.coins[0].vx, a.coins[0].vy>> \in UniformDraws
                      /\ a.awaiting_switch
                /\ n = "extra" =>
                      a.extra_turn = (b.extra_turn \/ variant = "game2" \/ b.turn = 0)

\* both coins have entered the pickup radius of one item in one frame
C10_Witness ==
    \E n \in ItemKinds : Crosses(0, n) /\ Crosses(1, n)

\* C11: in both variants, the coin consuming the ExtraTurn item sets the
\* extra-turn flag only if it is coins[turn]; when the other coin consumes
\* it the item is removed and the flag is left as it was
C11_ExtraTurnItemConditional ==
    \A p \in Sides :
        trace.consumed["extra"] = p =>
            /\ Stage("items").items["extra"] = <<>>
            /\ p = Stage("moved").turn => Stage("items").extra_turn
            /\ p # Stage("moved").turn =>
                  Stage("items").extra_turn = Stage("moved").extra_turn

\* C12: the coin consuming the Redirect item leaves check_item_pickup with
\* vx of magnitude in [5, 7], positive for side 0 and negative for side 1,
\* vy in [-2, 2] and resting false, and awaiting_switch is true, whether or
\* not the coin is coins[turn]
C12_Redirect ==
    \A p \in Sides :
        trace.consumed["redirect"] = p =>
            LET c == Stage("items").coins[p]
                vx == IF p = 0 THEN c.vx ELSE 0 - c.vx
            IN  /\ Stage("items").items["redirect"] = <<>>
                /\ 5 * Q <= vx /\ vx <= 7 * Q
                /\ 0 - 2 * Q <= c.vy /\ c.vy <= 2 * Q
                /\ ~c.resting
                /\ Stage("items").awaiting_switch

\* the Redirect item was consumed by coin 1 while it was coin 0's turn and
\* sped the coin up to the left
C12_Witness ==
    /\ trace.consumed["redirect"] = 1
    /\ Stage("moved").turn = 0
    /\ Stage("moved").coins[1].vx < 0
    /\ Stage("items").coins[1].vx < Stage("moved").coins[1].vx

\* coin c is at rest: resting with velocity (0, 0)
AtRest(c) == c.resting /\ c.vx = 0 /\ c.vy = 0

\* C13: with no obstacles, repeated Coin.update calls on a coin with a
\* non-zero velocity reach a state with resting true and velocity (0, 0),
\* and from such a state a further call changes neither the position, the
\* velocity nor the resting flag
C13_FrictionTermination ==
    /\ (obstacles = << >>) => <>AtRest(coins[0])
    /\ [][(obstacles = << >> /\ AtRest(coins[0])) => coins'[0] = coins[0]]_vars

\* with no obstacles, the coin has come to rest away from the place where
\* it was launched
C13_Witness ==
    /\ obstacles = << >>
    /\ trace.ran
    /\ AtRest(coins[0])
    /\ \A p \in StepPositions : <<coins[0].x, coins[0].y>> # <<p[1] * Q, p[2] * Q>>

\* C14: whatever the velocity and the obstacle list, a coin that was inside
\* the arena bounds is, after Coin.update, at x in [MARGIN + r, WIDTH -
\* MARGIN - r] and y in [MARGIN + r, HEIGHT - MARGIN - r]
C14_BoundaryContainment ==
    /\ (MARGIN + coins[0].r) * Q <= coins[0].x
    /\ coins[0].x <= (WIDTH - MARGIN - coins[0].r) * Q
    /\ (MARGIN + coins[0].r) * Q <= coins[0].y
    /\ coins[0].y <= (HEIGHT - MARGIN - coins[0].r) * Q

\* the displacement of the call meets neither a wall nor an obstacle
FreeMove(c, obs) ==
    /\ (MARGIN + c.r) * Q <= c.x + c.vx
    /\ c.x + c.vx <= (WIDTH - MARGIN - c.r) * Q
    /\ (MARGIN + c.r) * Q <= c.y + c.vy
    /\ c.y + c.vy <= (GRID_ROWS * CELL + MARGIN - c.r) * Q
    /\ \A k \in 1..Len(obs) : ~collidepoint(obs[k], c.x + c.vx, c.y + c.vy)

\* C17: a call of Coin.update on a coin with |vx| < MIN_SPEED and |vy| <
\* MIN_SPEED sets the velocity to (0, 0) and resting to true and leaves the
\* position; on any other coin it sets resting false, moves the coin by the
\* velocity it had before the call, and leaves it with that velocity
\* multiplied by FRICTION (when the coin meets no wall and no obstacle)
C17_StepContract ==
    trace.ran =>
        LET c == Stage("start").coins[0]
            d == coins[0]
        IN  IF Abs(c.vx) < MIN_SPEED /\ Abs(c.vy) < MIN_SPEED
            THEN d.vx = 0 /\ d.vy = 0 /\ d.resting /\ d.x = c.x /\ d.y = c.y
            ELSE /\ ~d.resting
                 /\ FreeMove(c, obstacles) =>
                       /\ d.x = c.x + c.vx
                       /\ d.y = c.y + c.vy
                       /\ Abs(1000 * d.vx - FRICTION * c.vx) < 1000
                       /\ Abs(1000 * d.vy - FRICTION * c.vy) < 1000
                       /\ Abs(d.vx) <= Abs(c.vx)
                       /\ Abs(d.vy) <= Abs(c.vy)

\* a moving coin has made a free move in both directions
C17_Witness ==
    /\ trace.ran
    /\ FreeMove(Stage("start").coins[0], obstacles)
    /\ Abs(Stage("start").coins[0].vx) >= MIN_SPEED
    /\ coins[0].x # Stage("start").coins[0].x
    /\ coins[0].y # Stage("start").coins[0].y

\* the coins a and b overlap without being on top of each other
Overlapping(a, b) ==
    /\ ~(a.x = b.x /\ a.y = b.y)
    /\ LenLt(b.x - a.x, b.y - a.y, (a.r + b.r) * Q)

\* the coins a and b move toward each other along the line of centres
\* with opposite velocities
HeadOn(a, b) ==
    /\ a.vx = 0 - b.vx
    /\ a.vy = 0 - b.vy
    /\ a.vx * (b.y - a.y) = a.vy * (b.x - a.x)
    /\ a.vx * (b.x - a.x) + a.vy * (b.y - a.y) > 0

\* w is -0.7 * v, to two fixed-point units
Damped(w, v) == Abs(10 * w + RESTITUTION * v) <= 20

\* C15: resolve_coin_collision leaves two overlapping coins of equal radius
\* that approach head-on with velocities +v and -v with velocities -0.7 v
\* and +0.7 v; and for every overlapping pair the sum of the two velocities
\* is the same before and after the call
C15_CollisionSymmetry ==
    trace.ran =>
        LET a == Stage("start").coins[0]
            b == Stage("start").coins[1]
        IN  Overlapping(a, b) =>
                /\ coins[0].vx + coins[1].vx = a.vx + b.vx
                /\ coins[0].vy + coins[1].vy = a.vy + b.vy
                /\ (a.r = b.r /\ HeadOn(a, b)) =>
                      /\ Damped(coins[0].vx, a.vx) /\ Damped(coins[0].vy, a.vy)
                      /\ Damped(coins[1].vx, b.vx) /\ Damped(coins[1].vy, b.vy)

\* a head-on pair on a diagonal has been resolved
C15_Witness ==
    /\ trace.ran
    /\ Overlapping(Stage("start").coins[0], Stage("start").coins[1])
    /\ HeadOn(Stage("start").coins[0], Stage("start").coins[1])
    /\ Stage("start").coins[0].vx # 0
    /\ Stage("start").coins[0].vy # 0
    /\ coins[0].vx # Stage("start").coins[0].vx

\* the coins a and b have the velocities of the coins c and d
SameVelocities(a, b, c, d) ==
    a.vx = c.vx /\ a.vy = c.vy /\ b.vx = d.vx /\ b.vy = d.vy

\* C16: resolve_coin_collision changes nothing when the centres coincide or
\* are at least r_a + r_b apart; when the coins overlap and are separating
\* along the normal it moves each by half the overlap, away from the other,
\* and leaves both velocities
C16_CollisionNoOp ==
    trace.ran =>
        LET a == Stage("start").coins[0]
            b == Stage("start").coins[1]
            min_dist == (a.r + b.r) * Q
            overlap == min_dist - length(b.x - a.x, b.y - a.y)
            \* the displacement of coin 0, away from coin 1
            mx == a.x - coins[0].x
            my == a.y - coins[0].y
        IN  /\ ~Overlapping(a, b) => coins = Stage("start").coins
            /\ (Overlapping(a, b)
                  /\ (b.vx - a.vx) * (b.x - a.x) + (b.vy - a.vy) * (b.y - a.y) > 0) =>
                  /\ SameVelocities(coins[0], coins[1], a, b)
                  /\ coins[1].x - b.x = mx
                  /\ coins[1].y - b.y = my
                  /\ mx * (b.x - a.x) + my * (b.y - a.y) >= 0
                  /\ Abs(2 * length(mx, my) - overlap) <= 4

\* an overlapping pair that was separating has been moved apart
C16_Witness ==
    /\ trace.ran
    /\ Overlapping(Stage("start").coins[0], Stage("start").coins[1])
    /\ (Stage("start").coins[1].vx - Stage("start").coins[0].vx)
           * (Stage("start").coins[1].x - Stage("start").coins[0].x)
       + (Stage("start").coins[1].vy - Stage("start").coins[0].vy)
           * (Stage("start").coins[1].y - Stage("start").coins[0].y) > 0
    /\ coins[0].x # Stage("start").coins[0].x
    /\ coins[0].vx # 0

\* the treasures of the game carried by "by" (None: the free ones)
Held(by) == { k \in 1..Len(treasures) : treasures[k].carried_by = by }

\* the centre of cell <<row, col>> of treasure k, in pixels
TreasurePx(k) ==
    <<MARGIN + treasures[k].col * CELL + CELL \div 2,
      MARGIN + treasures[k].row * CELL + CELL \div 2>>

\* the square of the distance from the AI coin to treasure k, in pixels
AiDist2(k) ==
    (Px(coins[ai_index].x) - TreasurePx(k)[1]) * (Px(coins[ai_index].x) - TreasurePx(k)[1])
    + (Px(coins[ai_index].y) - TreasurePx(k)[2]) * (Px(coins[ai_index].y) - TreasurePx(k)[2])

\* no free treasure is nearer to the AI coin than treasure k
NearestToAi(k) == \A j \in Held(None) : AiDist2(k) <= AiDist2(j)

\* C18: choose_ai_target returns the centre of the AI's base in mode
\* "score" if the AI carries the treasure; else, if the human carries it,
\* the human coin's position (its position 40 frames ahead when it is 150
\* pixels or more away) in mode "attack"; else the nearest free treasure
\* in mode "treasure"; else the human coin's position in mode "attack"
C18_TargetPriority ==
    variant = "game2" =>
        LET t == choose_ai_target(G)
            here == <<Px(coins[0].x), Px(coins[0].y)>>
            ahead == <<Px(coins[0].x + 40 * coins[0].vx), Px(coins[0].y + 40 * coins[0].vy)>>
            base == bases[ai_index]
        IN  IF Held(ai_index) # {}
            THEN t = <<base.left + base.w \div 2, base.top + base.h \div 2, "score">>
            ELSE IF Held(0) # {}
            THEN /\ t[3] = "attack"
                 /\ <<t[1], t[2]>> =
                       IF LenLt(coins[0].x - coins[1].x, coins[0].y - coins[1].y, 150 * Q)
                       THEN here ELSE ahead
            ELSE IF Held(None) # {}
            THEN /\ t[3] = "treasure"
                 /\ \E k \in Held(None) : <<t[1], t[2]>> = TreasurePx(k) /\ NearestToAi(k)
            ELSE t = <<here[1], here[2], "attack">>

\* the AI has just launched while the human coin carried the treasure
C18_Witness ==
    /\ variant = "game2"
    /\ trace.launches > 0
    /\ Stage("input").turn = ai_index
    /\ ~coins[ai_index].resting
    /\ \E k \in 1..Len(Stage("input").treasures) : Stage("input").treasures[k].carried_by = 0

\* the frame that ends in the primed state saw update_ai launch the AI coin
AiLaunched ==
    /\ variant' = "game2"
    /\ trace'.launches > 0
    /\ trace'.stage["input"].turn = ai_index

\* update_ai got past its early returns in the frame that ends in the
\* primed state
AiEligible ==
    /\ variant' = "game2"
    /\ trace'.ran
    /\ trace'.stage["input"].turn = ai_index
    /\ ~trace'.stage["input"].awaiting_switch
    /\ trace'.stage["input"].coins[ai_index].resting
    /\ ~trace'.stage["input"].match_over

\* C19: the AI never launches without a completed think delay.  The first
\* eligible frame of the AI only arms the timer (ai_thinking true, deadline
\* 1000 to 2000 ms ahead, no launch, no coin changed by update_ai); the AI
\* coin is
\* launched only in a later frame, with ai_thinking true before it, the
\* clock at the deadline or past it, the turn the AI's, awaiting_switch
\* false, the AI coin resting and the match not over; and while the AI
\* waits update_ai changes no coin (the steal step of the same frame may).
C19_ThinkDelay ==
    [][ /\ (AiEligible /\ (~ai_thinking \/ trace'.reset))
              => /\ trace'.ai_started
                 /\ ai_thinking'
                 /\ (ai_think_until' - clock') \in 1000..2000
                 /\ trace'.launches = 0
                 /\ trace'.stage["ai"].coins = trace'.stage["input"].coins
        /\ trace'.ai_started => AiEligible /\ (~ai_thinking \/ trace'.reset)
        /\ AiLaunched
              => /\ AiEligible
                 /\ ai_thinking
                 /\ ~trace'.reset
                 /\ ~trace'.ai_started
                 /\ ai_think_until' = ai_think_until
                 /\ ai_think_until >= 1000
                 /\ clock' >= ai_think_until
                 /\ ~ai_thinking'
        /\ (AiEligible /\ ~AiLaunched) => trace'.stage["ai"].coins = trace'.stage["input"].coins
      ]_vars

\* the AI has launched after the longest think delay ran out
C19_Witness ==
    /\ variant = "game2"
    /\ trace.launches > 0
    /\ Stage("input").turn = ai_index
    /\ ai_think_until = 2000
    /\ clock >= ai_think_until
    /\ ~ai_thinking

\* C20: a pending think timer is cancelled whenever the turn leaves the AI.
\* In game2, with the match not over, ai_thinking implies turn = ai_index;
\* and no timer is carried from one AI turn into a later one: a timer that
\* is pending at the end of a frame was armed in that frame, or was pending
\* at its start with the turn the AI's throughout; none is pending after a
\* launch by the AI, a turn switch or a round start unless armed after it
\* in the same frame; and the AI launches on a timer pending from before.
C20_TimerCancelled ==
    /\ [](variant = "game2" /\ ~match_over /\ ai_thinking => turn = ai_index)
    /\ [][ variant = "game2" =>
              /\ (ai_thinking' /\ ~trace'.ai_started)
                    => /\ ai_thinking
                       /\ turn = ai_index /\ turn' = ai_index
                       /\ ~trace'.reset
                       /\ ai_think_until' = ai_think_until
              /\ (ai_thinking' /\ (AiLaunched \/ trace'.switched \/ trace'.round_started))
                    => trace'.reset /\ trace'.ai_started /\ clock' = 0
              /\ AiLaunched => ai_thinking /\ ~trace'.reset
          ]_vars

\* the AI is armed afresh in its second turn of a round
C20_Witness ==
    /\ variant = "game2"
    /\ turn = ai_index
    /\ total_turns >= 3
    /\ trace.ai_started
    /\ ai_thinking
    /\ clock = 0
    /\ ~trace.reset

\* the coin c moves no faster than MAX_SHOT_POWER
WithinPower(c) == c.vx * c.vx + c.vy * c.vy <= MAX_SHOT_POWER * MAX_SHOT_POWER

\* the game h is what a release at displacement d from drag_start makes of
\* the game g: with (vx, vy) = -d / 10, a launch at (vx, vy) scaled down to
\* MAX_SHOT_POWER if its speed exceeds 0.1, nothing but the end of the
\* drag otherwise
ReleaseContract(g, d, h) ==
    LET vx == -(d[1] * (Q \div 10))
        vy == -(d[2] * (Q \div 10))
        c == h.coins[g.turn]
    IN  /\ ~h.dragging
        /\ h.coins[other(g.turn)] = g.coins[other(g.turn)]
        /\ h.turn = g.turn
        /\ IF vx * vx + vy * vy > (Q \div 10) * (Q \div 10)
           THEN /\ ~c.resting /\ h.awaiting_switch
                /\ c.x = g.coins[g.turn].x /\ c.y = g.coins[g.turn].y
                /\ WithinPower(c)
                /\ IF vx * vx + vy * vy <= MAX_SHOT_POWER * MAX_SHOT_POWER
                   THEN c.vx = vx /\ c.vy = vy
                   ELSE /\ c.vx * c.vx + c.vy * c.vy
                             >= (MAX_SHOT_POWER - 2) * (MAX_SHOT_POWER - 2)
                        /\ c.vx * vx + c.vy * vy > 0
                        /\ Abs(c.vx * vy - c.vy * vx) <= Abs(vx) + Abs(vy)
           ELSE /\ c = g.coins[g.turn]
                /\ h.awaiting_switch = g.awaiting_switch

\* the distances (Q units) the power of an AI shot is checked on
PowerDistances == {0, 1, 4000, 10000, 24000, 25000, 100000}

\* C21: a drag release launches at the negated press-to-release
\* displacement divided by 10, scaled down to MAX_SHOT_POWER, and only if
\* the unscaled speed exceeds 0.1 (else velocity, resting and
\* awaiting_switch stay); and every launch (release, nudge, AI shot) gives
\* the coin a speed of at most MAX_SHOT_POWER
C21_LaunchClamp ==
    /\ (AcceptsInput /\ dragging) =>
          \A d \in ShotDisplacements :
             ReleaseContract(G, d,
                 HandleShotInput(G, <<"UP">>,
                     <<drag_start[1] + d[1], drag_start[2] + d[2]>>, NoRnd))
    /\ trace.launches > 0 => WithinPower(Stage("ai").coins[Stage("input").turn])
    /\ \A mode \in {"score", "attack", "treasure", "reposition"} : \A corner \in BOOLEAN :
          \A dc \in PowerDistances : \A dt \in PowerDistances :
             AiPower(mode, corner, dc, dt) <= MAX_SHOT_POWER

\* a release with a displacement of 250 pixels has launched the coin at
\* MAX_SHOT_POWER, in both components
C21_Witness ==
    /\ trace.launches > 0
    /\ ~trace.stage["keys"].awaiting_switch
    /\ trace.stage["keys"].dragging
    /\ LET c == Stage("input").coins[Stage("input").turn]
       IN  /\ c.vx * c.vx + c.vy * c.vy >= (MAX_SHOT_POWER - 2) * (MAX_SHOT_POWER - 2)
           /\ c.vx # 0 /\ c.vy # 0

\* mouse positions at offsets from the turn's coin: its centre, on and just
\* outside its grab radius of r + 10, far away
MouseProbes ==
    { <<Px(coins[turn].x) + o[1], Px(coins[turn].y) + o[2]>> :
        o \in {<<0, 0>>, <<24, 0>>, <<25, 0>>, <<17, 0 - 17>>, <<18, 18>>, <<0 - 300, 40>>} }

\* the point m (pixels) is within the grab radius of the coin c
InGrab(m, c) == LenLeq(m[1] * Q - c.x, m[2] * Q - c.y, (c.r + 10) * Q)

\* a press within the grab radius of the turn's resting coin is on record
ValidPress ==
    /\ dragging
    /\ coins[turn].resting
    /\ InGrab(drag_start, coins[turn])

\* C22: invalid input is ignored without any state change: a release that
\* was not preceded by a press within the grab radius (r + 10) of the
\* current turn's resting coin, and a press outside that radius, change
\* nothing of the game (velocity, awaiting_switch, turn, dragging flag)
C22_InvalidInputIgnored ==
    /\ ~ValidPress =>
          \A m \in MouseProbes : HandleShotInput(G, <<"UP">>, m, NoRnd) = G
    /\ \A m \in MouseProbes :
          ~InGrab(m, coins[turn]) => HandleShotInput(G, <<"DOWN">>, m, NoRnd) = G
    /\ (trace.launches > 0 /\ Stage("keys").dragging /\ ~Stage("input").dragging)
          => InGrab(drag_start, Stage("keys").coins[Stage("keys").turn])

\* the stage s is a round start: flags down, coins at their start
\* positions at rest with empty hands, one free treasure, one item
RoundOpen(s) ==
    /\ ~s.awaiting_switch /\ ~s.extra_turn
    /\ s.turn \in Sides
    /\ s.total_turns = 0
    /\ s.coins[0] = Home0 /\ s.coins[1] = Home1
    /\ Len(s.treasures) = 1
    /\ s.treasures[1].carried_by = None
    /\ Cardinality({ n \in ItemKinds : s.items[n] # <<>> }) = 1

OneFreshTreasure(ts, obs) ==
    /\ Len(ts) = 1
    /\ ts[1].carried_by = None
    /\ ts[1].row \in 1..3 /\ ts[1].col \in 3..5
    /\ \A k \in 1..Len(obs) :
          LET x == MARGIN + ts[1].col * CELL + CELL \div 2
              y == MARGIN + ts[1].row * CELL + CELL \div 2
          IN  ~(/\ obs[k].left <= x /\ x < obs[k].left + obs[k].w
                /\ obs[k].top <= y /\ y < obs[k].top + obs[k].h)

C25_FrozenWhenOver ==
    /\ [](match_over =>
            /\ \A e \in {"DOWN", "UP", "SPACE"} : \A m \in MouseProbes :
                  HandleShotInput(G, <<e>>, m, <<600, 0 - 200>>) = G
            /\ UpdateAi(G) = {G}
            /\ UpdateLogic(G) = {MarkAll(G)})
    /\ [][ (match_over /\ ~trace'.reset) =>
              /\ match_over'
              /\ coins' = coins
              /\ turn' = turn
              /\ match_wins' = match_wins
              /\ treasures' = treasures
              /\ items' = items
              /\ awaiting_switch' = awaiting_switch
              /\ extra_turn' = extra_turn
              /\ trace'.launches = 0
         ]_vars

\* a frame has passed over a finished match in which a coin still has the
\* velocity of its last shot
C25_Witness ==
    /\ match_over
    /\ Stage("start").match_over
    /\ ~trace.reset
    /\ \E i \in Sides : coins[i].vx # 0 /\ ~coins[i].resting

\* the coins of the game or stage s that are not resting
NonResting(s) == { i \in Sides : ~s.coins[i].resting }

\* the coins of the game or stage s with a non-zero velocity
Moving(s) == { i \in Sides : s.coins[i].vx # 0 \/ s.coins[i].vy # 0 }

\* C26 as claimed: while awaiting_switch is true, at most one of the two
\* coins is non-resting
C26_AtMostOneNonResting ==
    awaiting_switch => Cardinality(NonResting(G)) <= 1

\* C26 as the code has it: a launch sets exactly the turn's coin in motion
\* and raises awaiting_switch, and no coin has a velocity unless
\* awaiting_switch is true (or the match is over); while it is true both
\* coins can be non-resting, the second set in motion by the collision
C26_MotionOnlyWhileAwaiting ==
    /\ (~awaiting_switch /\ ~match_over) => Moving(G) = {}
    /\ trace.launches > 0 =>
          /\ Stage("ai").awaiting_switch
          /\ Moving(Stage("ai")) \subseteq {Stage("input").turn}
          /\ NonResting(Stage("ai")) = {Stage("input").turn}

\* after a collision both coins are non-resting and moving while the shot
\* awaits its resolution
C26_Witness ==
    /\ awaiting_switch
    /\ ~match_over
    /\ NonResting(G) = Sides
    /\ Moving(G) = Sides

\* C27: a turn closes only from full rest: in every frame in which the
\* turn-switch step fires, both coins have velocity exactly (0, 0) and
\* resting true, and no drag is in progress
C27_ClosesFromRest ==
    trace.switched =>
        /\ Moving(Stage("steal")) = {}
        /\ NonResting(Stage("steal")) = {}
        /\ ~Stage("steal").dragging
        /\ Stage("steal").awaiting_switch
        /\ \A i \in Sides : coins[i] = Stage("steal").coins[i]

\* the turn has closed in the frame in which the last moving coin, after a
\* shot that set both in motion, came to rest
C27_Witness ==
    /\ trace.switched
    /\ Moving(Stage("start")) # {}
    /\ \A i \in Sides : coins[i].x # Home0.x /\ coins[i].x # Home1.x

\* the centre of the cell of treasure k of the frame, in pixels
TreasurePxAt(k) ==
    <<MARGIN + Stage("coll").treasures[k].col * CELL + CELL \div 2,
      MARGIN + Stage("coll").treasures[k].row * CELL + CELL \div 2>>

\* the position of coin i at the point n of the frame
PosAt(n, i) == <<Stage(n).coins[i].x, Stage(n).coins[i].y>>

\* C28 as claimed: within a frame the collision resolver runs before all
\* pickup detection, so the item detection sees the positions the
\* collision resolver has corrected
C28_PickupAfterCollision ==
    trace.ran => \A i \in Sides : PosAt("items", i) = PosAt("coll", i)

\* treasure k was free before the treasure pickup of the frame and is
\* carried by coin i after it
PickedUp(k, i) ==
    /\ k <= Len(Stage("pick").treasures)
    /\ Stage("coll").treasures[k].carried_by = None
    /\ Stage("pick").treasures[k].carried_by = i

\* C28 as the code has it: within a frame the coins are integrated first,
\* then the items are detected on the integrated positions, then the
\* collision resolver corrects the positions, then treasure pickup and
\* steal see the corrected positions, then scoring and the turn switch are
\* evaluated
C28_FrameOrder ==
    trace.ran =>
        /\ Stage("moved").coins = [i \in Sides |-> CoinUpdate(Stage("ai").coins[i], obstacles)]
        /\ \A i \in Sides : PosAt("items", i) = PosAt("moved", i)
        /\ \A n \in ItemKinds : \A p \in Sides :
              trace.consumed[n] = p =>
                 /\ Stage("moved").items[n] # <<>>
                 /\ Stage("items").items[n] = <<>>
                 /\ InRadius(PosAt("moved", p)[1], PosAt("moved", p)[2],
                             Stage("moved").coins[p], Stage("moved").items[n])
        /\ Stage("coll").coins =
              [i \in Sides |->
                 ResolveCoinCollision(Stage("items").coins[0], Stage("items").coins[1])[i + 1]]
        /\ Stage("coll").items = Stage("items").items
        /\ \A k \in 1..Len(Stage("coll").treasures) : \A i \in Sides :
              PickedUp(k, i) =>
                 LenLeq(PosAt("coll", i)[1] - TreasurePxAt(k)[1] * Q,
                        PosAt("coll", i)[2] - TreasurePxAt(k)[2] * Q,
                        (Stage("coll").coins[i].r + 12) * Q)
        /\ \A i \in Sides : PosAt("steal", i) = PosAt("coll", i)
        /\ (trace.scored = None /\ ~trace.switched) =>
              /\ turn = Stage("steal").turn
              /\ match_wins = Stage("steal").match_wins
              /\ treasures = Stage("steal").treasures

\* a coin has consumed an item at its integrated position, inside the
\* item's radius, in the frame in which the collision resolver then moved
\* it back out of that radius
C28_Witness ==
    /\ trace.ran
    /\ \E n \in ItemKinds : \E p \in Sides :
          /\ trace.consumed[n] = p
          /\ PosAt("coll", p) # PosAt("items", p)
          /\ ~InRadius(PosAt("coll", p)[1], PosAt("coll", p)[2],
                       Stage("coll").coins[p], Stage("moved").items[n])


\* the centre of body c lies in rectangle rect: on or after its left and top
\* edges and before its right and bottom edges
CentreInside(c, rect) ==
    /\ rect.left * Q <= c.x /\ c.x < (rect.left + rect.w) * Q
    /\ rect.top * Q <= c.y /\ c.y < (rect.top + rect.h) * Q

\* the four penetration depths of body c in rect, in the order left, right,
\* top, bottom
Depths(c, rect) ==
    << Abs(rect.left * Q - (c.x + c.r * Q)),
       Abs((rect.left + rect.w) * Q - (c.x - c.r * Q)),
       Abs(rect.top * Q - (c.y + c.r * Q)),
       Abs((rect.top + rect.h) * Q - (c.y - c.r * Q)) >>

\* the side body c is pushed out of: the first side of least depth
PushSide(c, rect) ==
    CHOOSE k \in 1..4 :
        /\ \A j \in 1..4 : Depths(c, rect)[k] <= Depths(c, rect)[j]
        /\ \A j \in 1..(k - 1) : Depths(c, rect)[j] # Depths(c, rect)[k]

\* body c pushed out of the left, right, top and bottom side of rect: one
\* coordinate is set, the velocity component of that axis is multiplied by
\* -0.7, the other coordinate and component stay
PushedOut(c, rect) ==
    << [c EXCEPT !.x = (rect.left - c.r) * Q, !.vx = TruncDiv(0 - 7 * c.vx, 10)],
       [c EXCEPT !.x = (rect.left + rect.w + c.r) * Q, !.vx = TruncDiv(0 - 7 * c.vx, 10)],
       [c EXCEPT !.y = (rect.top - c.r) * Q, !.vy = TruncDiv(0 - 7 * c.vy, 10)],
       [c EXCEPT !.y = (rect.top + rect.h + c.r) * Q, !.vy = TruncDiv(0 - 7 * c.vy, 10)] >>

\* d is body c after the response to rect
Responded(c, rect, d) ==
    IF CentreInside(c, rect) THEN d = PushedOut(c, rect)[PushSide(c, rect)] ELSE d = c

\* d is body c after the responses to the rectangles from the k-th on, taken
\* in the order of the list
RECURSIVE RespondedInTurn(_, _, _, _)
RespondedInTurn(c, obs, k, d) ==
    IF k > Len(obs) THEN d = c
    ELSE \E e \in {c} \cup {PushedOut(c, obs[k])[n] : n \in 1..4} :
            Responded(c, obs[k], e) /\ RespondedInTurn(e, obs, k + 1, d)

\* body c after one step and the wall bounce, before the obstacles
BeforeObstacles(c) ==
    WallBounce([c EXCEPT !.resting = FALSE, !.x = c.x + c.vx, !.y = c.y + c.vy,
                         !.vx = MulFriction(c.vx), !.vy = MulFriction(c.vy)])

\* C29: in every call of Coin.update on a moving body, the response to each
\* rectangle of the list is the one described: no change unless the centre
\* point lies in the rectangle, otherwise a push out of the first side of
\* least depth in the order left, right, top, bottom, with the velocity
\* component of that axis multiplied by -0.7 and the other coordinate and
\* component kept
C29_ObstacleResponse ==
    [][ (Abs(coins[0].vx) >= MIN_SPEED \/ Abs(coins[0].vy) >= MIN_SPEED) =>
          RespondedInTurn(BeforeObstacles(coins[0]), obstacles, 1, coins'[0]) ]_vars

\* a body that reached the left column at equal depth from its left side and
\* its top has been pushed out of the left side: it stands one radius left
\* of the column, moving left at 0.7 of its speed and down as before
C29_Witness ==
    /\ trace.ran
    /\ coins[0].x = (LeftColumn.left - COIN_R) * Q
    /\ coins[0].y = (LeftColumn.top + 3) * Q
    /\ coins[0].vx = Bounce(MulFriction(600))
    /\ coins[0].vy = MulFriction(600)


\* C30: at the end of a frame in which side i scored without ending the
\* match, the turn is with the other side, 1 - i, and neither a resolution
\* nor an extra turn is pending
C30_LoserOpens ==
    (trace.scored # None /\ ~match_over) =>
        /\ turn = 1 - trace.scored
        /\ ~awaiting_switch
        /\ ~extra_turn

\* the side in turn has scored, with an extra turn pending at the start of
\* the frame, and the match goes on: the turn has passed to the other side
C30_Witness ==
    /\ trace.scored # None /\ ~match_over
    /\ trace.round_started
    /\ trace.stage["start"].turn = trace.scored
    /\ trace.stage["start"].extra_turn
    /\ turn = 1 - trace.scored


\* every frame without a reset leaves the game as it is, whatever the events
\* of the frame: an empty batch, a press, a release or K_SPACE
FramesChangeNothing ==
    \A ev \in {<< >>, <<"DOWN">>, <<"UP">>, <<"SPACE">>} : \A m \in MouseProbes :
        \A h \in RunFrame(G, FALSE, ev, m, <<600, 0 - 200>>) :
            [h EXCEPT !.trace = trace] = G

\* C31: every shot is eventually resolved: no reachable state leaves
\* awaiting_switch true for ever with both bodies at rest, that is, in no
\* reachable state of a match that is not over is awaiting_switch true while
\* every later frame leaves the state as it is
C31_ShotResolved ==
    ~(awaiting_switch /\ ~match_over /\ ~any_moving(G) /\ FramesChangeNothing)


\* the frame launched a body by a release: the drag ended in the input step
\* and a launch was made
ReleaseLaunched ==
    /\ Stage("keys").dragging /\ ~Stage("input").dragging
    /\ trace.launches > 0

\* C32: a release launches only the body that was pressed: a drag does not
\* survive a round start or a reset, and a body launched by a release has
\* the press of the drag within its grab radius
C32_ReleaseActsOnPressed ==
    /\ trace.round_started => ~dragging
    /\ ReleaseLaunched =>
          InGrab(drag_start, Stage("keys").coins[Stage("keys").turn])


\* the velocities of the two bodies of game g
Velocities(g) == [i \in Sides |-> <<g.coins[i].vx, g.coins[i].vy>>]

\* the game after handle_shot_input has read the batch of events b with the
\* mouse at m (and the nudge draws 6.0 and -2.0)
AfterBatch(b, m) ==
    HandleShotInput([G EXCEPT !.trace = FreshTrace(G)], b, m, <<600, 0 - 200>>)

\* C33: at most one launch per turn: once an event has launched the turn's
\* body, no further press, release or nudge changes a velocity, neither a
\* later event of the same batch nor an event of a later frame
C33_OneLaunchPerTurn ==
    \A d \in ShotDisplacements : \A e1 \in {"DOWN", "UP", "SPACE"} :
        /\ awaiting_switch =>
              Velocities(AfterBatch(<<e1>>, <<drag_start[1] + d[1], drag_start[2] + d[2]>>))
                 = Velocities(G)
        /\ \A e2 \in {"DOWN", "UP", "SPACE"} :
              AfterBatch(<<e1>>, <<drag_start[1] + d[1], drag_start[2] + d[2]>>).awaiting_switch =>
                 Velocities(AfterBatch(<<e1, e2>>, <<drag_start[1] + d[1], drag_start[2] + d[2]>>))
                    = Velocities(AfterBatch(<<e1>>, <<drag_start[1] + d[1], drag_start[2] + d[2]>>))


\* C34: nothing moves while the game waits for a shot: at the end of every
\* frame, and at every step of a frame, a body with a non-zero velocity
\* implies that awaiting_switch is true or the match is over
C34_NothingMovesWhileWaiting ==
    /\ \A i \in Sides :
          (coins[i].vx # 0 \/ coins[i].vy # 0) => (awaiting_switch \/ match_over)
    /\ trace.ran =>
          \A n \in StageNames :
              Moving(Stage(n)) # {} => (Stage(n).awaiting_switch \/ Stage(n).match_over)

\* a shot has just been resolved: the frame began with a shot in flight and
\* ended waiting for the next one, with both bodies at rest
C34_Witness ==
    /\ trace.ran /\ trace.switched
    /\ Stage("start").awaiting_switch
    /\ ~awaiting_switch /\ ~match_over
    /\ Moving(G) = {}


\* C35 as claimed: an extra turn is only earned during a shot: in every
\* reachable state, extra_turn implies awaiting_switch
C35_ExtraOnlyDuringShot == extra_turn => awaiting_switch


\* C35 as the code has it: while the game waits for a shot and the match is
\* not over, the extra-turn flag is set only by a steal: the flag rises in a
\* frame that ends waiting only if the turn's body stole in that frame, and
\* while it is set the turn's body carries a treasure and stands within
\* STEAL_DISTANCE of the other body; no treasure pickup and no item sets it
\* while the game waits
C35_ExtraWhileWaitingIsSteal ==
    /\ [](  (extra_turn /\ ~awaiting_switch /\ ~match_over) =>
               /\ coins[turn].carrying # None
               /\ LenLeq(coins[0].x - coins[1].x, coins[0].y - coins[1].y,
                         STEAL_DISTANCE * Q)  )
    /\ [][ (~extra_turn /\ extra_turn' /\ ~awaiting_switch' /\ ~match_over') =>
              /\ trace'.stole = turn'
              /\ ~trace'.stage["steal"].awaiting_switch ]_vars

\* the turn has passed to a side standing beside the carrier: in the next
\* frame, with no shot in flight, it has stolen the treasure and holds an
\* extra turn
C35_Witness ==
    /\ extra_turn /\ ~awaiting_switch /\ ~match_over
    /\ trace.stole = turn
    /\ ~Stage("start").awaiting_switch
    /\ ~Stage("start").extra_turn


\* the centre of coin i of the stage s lies in the base of side i
InOwnBase(s, i) == collidepoint(bases[i], s.coins[i].x, s.coins[i].y)

\* at the steal step of the frame the turn's body can steal: the other body
\* carries, the turn's body does not, and they are within STEAL_DISTANCE
StealDue ==
    /\ Stage("pick").coins[Stage("pick").turn].carrying = None
    /\ Stage("pick").coins[other(Stage("pick").turn)].carrying # None
    /\ CoinsWithin(Stage("pick"), STEAL_DISTANCE)

\* C36: the steal step runs before the scoring step: a carrier of the side
\* not in turn whose centre enters its base in a frame in which the turn's
\* body, carrying nothing, is within STEAL_DISTANCE loses the treasure in
\* that frame and does not score; and a turn's body that steals inside its
\* own base scores in the same frame
C36_StealPreemptsScoring ==
    trace.ran =>
        /\ (/\ StealDue
            /\ InOwnBase(Stage("pick"), other(Stage("pick").turn))
            /\ ~InOwnBase(Stage("start"), other(Stage("pick").turn)))
           => /\ trace.stole = Stage("pick").turn
              /\ Stage("steal").coins[other(Stage("pick").turn)].carrying = None
              /\ Stage("steal").coins[Stage("pick").turn].carrying # None
              /\ trace.scored # other(Stage("pick").turn)
        /\ (trace.stole # None /\ InOwnBase(Stage("steal"), trace.stole))
           => trace.scored = trace.stole

\* a carrier not in turn has crossed into its base with the turn's body
\* within reach: it has lost the treasure and nobody has scored
C36_Witness ==
    /\ trace.ran
    /\ StealDue
    /\ InOwnBase(Stage("pick"), other(Stage("pick").turn))
    /\ ~InOwnBase(Stage("start"), other(Stage("pick").turn))
    /\ trace.stole = Stage("pick").turn
    /\ trace.scored = None


\* C37: the match counters stay consistent: each win counter is in
\* 0..ROUNDS_TO_WIN, at most one side has ROUNDS_TO_WIN wins, match_over is
\* true exactly when some counter equals ROUNDS_TO_WIN, the list of
\* treasures holds at most one treasure, and the sum of the counters grows by
\* at most 1 in a frame
C37_CountersConsistent ==
    /\ [](/\ \A i \in Sides : match_wins[i] \in 0..ROUNDS_TO_WIN
          /\ ~(match_wins[0] = ROUNDS_TO_WIN /\ match_wins[1] = ROUNDS_TO_WIN)
          /\ match_over <=> (\E i \in Sides : match_wins[i] = ROUNDS_TO_WIN)
          /\ Len(treasures) <= 1)
    /\ [][ match_wins'[0] + match_wins'[1] <= match_wins[0] + match_wins[1] + 1 ]_vars

\* a side has scored its last win in this frame: the match is over with the
\* other side short of ROUNDS_TO_WIN and no treasure left
C37_Witness ==
    /\ trace.scored # None
    /\ match_over
    /\ match_wins[trace.scored] = ROUNDS_TO_WIN
    /\ match_wins[other(trace.scored)] < ROUNDS_TO_WIN
    /\ Len(treasures) = 0


\* the centre of body c lies within the arena bounds
InArena(c) ==
    /\ (MARGIN + c.r) * Q <= c.x /\ c.x <= (WIDTH - MARGIN - c.r) * Q
    /\ (MARGIN + c.r) * Q <= c.y /\ c.y <= (GRID_ROWS * CELL + MARGIN - c.r) * Q

\* C38: whole-frame containment: at the end of every frame, after movement,
\* obstacle push-out and coin-to-coin separation, the centre of each body
\* lies within the arena bounds
C38_FrameContainment == \A i \in Sides : InArena(coins[i])


\* C39: the AI never stalls its own turn: in game2 no reachable state leaves
\* the AI's turn unresolved for ever, that is, in no reachable state of a
\* match that is not over is it the AI's turn with its shot committed, both
\* bodies at rest, and every later frame leaving the state as it is
C39_AiTurnResolved ==
    ~(/\ variant = "game2" /\ turn = ai_index
      /\ ~match_over
      /\ awaiting_switch
      /\ coins[ai_index].resting /\ ~any_moving(G)
      /\ FramesChangeNothing)

====
